---------------------------- MODULE Spec2Model ----------------------------
(***************************************************************************)
(* Model of anthropic-ollama-proxy.py: the gateway that translates         *)
(* Anthropic Messages API requests into OpenAI chat-completions requests   *)
(* for a local backend and translates the responses back (synchronous,     *)
(* pseudo-stream and true-stream paths), with the markup tool-call         *)
(* extractor.                                                              *)
(*                                                                         *)
(* Conventions.  A Python str whose characters matter is a sequence of     *)
(* atoms; an atom is a one-character string ("a", " ") or one markup tag   *)
(* written as it stands in the text ("<invoke name=\"Read\">").  The empty *)
(* str is <<>>.  Enumerated strings (roles, block types, tool names,       *)
(* finish reasons, event types) are TLA+ strings.  A Python dict is a      *)
(* function on the set of its keys; Get mirrors dict.get.                  *)
(***************************************************************************)
EXTENDS Integers, Sequences, FiniteSets, TLC

VARIABLES
    pc,                   \* position of the request's handler
    body,                 \* the POST body read from the connection
    path,                 \* the request path
    req,                  \* the parsed request (a dict)
    current_tool_names,   \* self._current_tool_names
    original_stream,      \* the client's stream flag
    oai_req,              \* the backend request built by _handle_messages
    backend,              \* what the backend does with the call
    backend_calls,        \* number of urlopen calls made for the request
    resp_lines,           \* lines of the backend stream read so far
    in_reasoning,         \* _handle_stream locals
    reasoning_started,
    content_started,
    content_index,
    total_output_tokens,
    responses,            \* HTTP response heads (and JSON bodies) written
    events,               \* SSE events written to the client, in order
    text,                 \* _extract_tool_calls_from_text: its arguments
    known_tools,
    extracted,            \* ... and its result
    client,               \* the client's end of the connection, as writes find it
    failed_responses,     \* responses whose write raised instead of being sent
    tool_names_attr,      \* _current_tool_names of the class and of each handler
    workers               \* concurrent handler threads: position and locals

requestVars == <<body, path, req, current_tool_names, original_stream, oai_req>>

streamLocals == <<in_reasoning, reasoning_started, content_started,
                  content_index, total_output_tokens>>

extractorVars == <<text, known_tools, extracted>>

connectionVars == <<client, failed_responses>>

threadVars == <<tool_names_attr, workers>>

vars == <<pc, requestVars, backend, backend_calls, resp_lines, streamLocals,
          responses, events, extractorVars, connectionVars, threadVars>>

----------------------------------------------------------------------------
(* Bounds *)

MaxLines == 4
MaxTools == 2
MaxMessages == 2
MaxPieces == 2

----------------------------------------------------------------------------
(* Python helpers *)

Get(d, k, default) == IF k \in DOMAIN d THEN d[k] ELSE default

\* {}
EmptyDict == [k \in {} |-> 0]

\* d with d[k] = v
DictPut(d, k, v) == (k :> v) @@ d

\* bool(s) of a str or a list
Truthy(s) == s # <<>>

\* None where a str is expected: a one-atom value no text can equal (an atom
\* of a text is one character or one tag).
NoneValue == <<"None">>

\* sep.join(parts)
RECURSIVE Join(_, _)
Join(parts, sep) ==
    IF parts = <<>> THEN <<>>
    ELSE IF Len(parts) = 1 THEN parts[1]
    ELSE parts[1] \o sep \o Join(Tail(parts), sep)

\* [f(x) for x in s]
Map(s, f(_)) == [i \in 1..Len(s) |-> f(s[i])]

\* s[:n]
Prefix(s, n) == SubSeq(s, 1, IF Len(s) < n THEN Len(s) ELSE n)

Min(a, b) == IF a < b THEN a ELSE b

----------------------------------------------------------------------------
(* SSE events (_send_sse) and response heads (_respond / send_response) *)

EvMessageStart(input_tokens) ==
    [type |-> "message_start", input_tokens |-> input_tokens,
     output_tokens |-> 0, content |-> <<>>]

EvStart(i, btype) ==
    [type |-> "content_block_start", index |-> i, block |-> btype]

EvToolStart(i, name) ==
    [type |-> "content_block_start", index |-> i, block |-> "tool_use",
     name |-> name]

EvDelta(i, dtype, payload) ==
    [type |-> "content_block_delta", index |-> i, delta |-> dtype,
     payload |-> payload]

EvStop(i) == [type |-> "content_block_stop", index |-> i]

EvMessageDelta(stop_reason, output_tokens) ==
    [type |-> "message_delta", stop_reason |-> stop_reason,
     output_tokens |-> output_tokens]

EvMessageStop == [type |-> "message_stop"]

SseHead == [status |-> 200, ctype |-> "text/event-stream"]

----------------------------------------------------------------------------
(* Markup tool-call extractor: _extract_tool_calls_from_text *)

\* Names that occur in markup: tool names, parameter keys, wrapper tags.
ToolNamesInText == {"Bash", "Read"}
KeyNames == {"command", "path"}
WrapperNames == {"function_calls", "action", "tool_call"}
\* A tag name that is no wrapper but starts with the name of one.
OtherNames == {"actions"}
TagNames == ToolNamesInText \cup KeyNames \cup WrapperNames \cup OtherNames
MarkupNames == ToolNamesInText \cup KeyNames

\* The markup tags, as they stand in the text.
InvokeOpen(n) == "<invoke name=\"" \o n \o "\">"
InvokeClose == "</invoke>"
ParamOpen(k) == "<parameter name=\"" \o k \o "\">"
ParamClose == "</parameter>"
FunctionOpen(n) == "<function=" \o n \o ">"
FunctionClose == "</function>"
QwenParamOpen(k) == "<parameter=" \o k \o ">"
TagOpen(n) == "<" \o n \o ">"
TagClose(n) == "</" \o n \o ">"

Whitespace == {" ", "\n"}

\* str.strip()
RECURSIVE LStrip(_)
LStrip(s) ==
    IF s # <<>> /\ Head(s) \in Whitespace THEN LStrip(Tail(s)) ELSE s

RECURSIVE RStrip(_)
RStrip(s) ==
    IF s # <<>> /\ s[Len(s)] \in Whitespace
    THEN RStrip(SubSeq(s, 1, Len(s) - 1))
    ELSE s

Strip(s) == RStrip(LStrip(s))

\* str.replace(sub, ""): every non-overlapping occurrence, left to right.
RECURSIVE ReplaceAll(_, _)
ReplaceAll(s, sub) ==
    IF Len(s) < Len(sub) THEN s
    ELSE IF SubSeq(s, 1, Len(sub)) = sub
         THEN ReplaceAll(SubSeq(s, Len(sub) + 1, Len(s)), sub)
         ELSE <<Head(s)>> \o ReplaceAll(Tail(s), sub)

\* A dict in insertion order: a sequence of [k, v] with distinct keys.
DictSet(d, k, v) ==
    IF \E i \in 1..Len(d) : d[i].k = k
    THEN [i \in 1..Len(d) |-> IF d[i].k = k THEN [k |-> k, v |-> v] ELSE d[i]]
    ELSE Append(d, [k |-> k, v |-> v])

\* json.dumps of a dict, and the JSON texts a backend can send: a JSON text
\* is [json, value], json = "invalid" for a text json.loads rejects (value is
\* then the text itself).
JsonDumps(value) == [json |-> "object", value |-> value]
JsonValid(s) == s.json # "invalid"
JsonLoads(s) == s.value

\* The six regular expressions.  kind names the expression, known the tool
\* names compiled into simple_pat.
InvokePat == [kind |-> "invoke_pat", known |-> {}]
ParamPat == [kind |-> "param_pat", known |-> {}]
QwenFuncPat == [kind |-> "qwen_func_pat", known |-> {}]
QwenParamPat == [kind |-> "qwen_param_pat", known |-> {}]
SimplePat(known) == [kind |-> "simple_pat", known |-> known]
InnerPat == [kind |-> "inner_pat", known |-> {}]

OpenNames(pat) ==
    CASE pat.kind \in {"invoke_pat", "param_pat", "qwen_func_pat",
                       "qwen_param_pat"} -> MarkupNames
      [] pat.kind = "simple_pat" -> pat.known
      [] pat.kind = "inner_pat" -> TagNames

OpenTag(pat, n) ==
    CASE pat.kind = "invoke_pat" -> InvokeOpen(n)
      [] pat.kind = "param_pat" -> ParamOpen(n)
      [] pat.kind = "qwen_func_pat" -> FunctionOpen(n)
      [] pat.kind = "qwen_param_pat" -> QwenParamOpen(n)
      [] pat.kind \in {"simple_pat", "inner_pat"} -> TagOpen(n)

CloseTag(pat, n) ==
    CASE pat.kind = "invoke_pat" -> InvokeClose
      [] pat.kind \in {"param_pat", "qwen_param_pat"} -> ParamClose
      [] pat.kind = "qwen_func_pat" -> FunctionClose
      [] pat.kind \in {"simple_pat", "inner_pat"} -> TagClose(n)

\* group(1) of a match that starts at atom a.
IsOpen(pat, a) == \E n \in OpenNames(pat) : a = OpenTag(pat, n)
OpenName(pat, a) == CHOOSE n \in OpenNames(pat) : a = OpenTag(pat, n)

SetMin(S) == CHOOSE x \in S : \A y \in S : x <= y

\* Where a match can end: the lazy (.*?) stops at the first closing tag.
Closes(toks, pat, i) ==
    {j \in (i + 1)..Len(toks) : toks[j] = CloseTag(pat, OpenName(pat, toks[i]))}

\* pat.finditer(toks): the non-overlapping matches [s, e], left to right.
RECURSIVE FindIter(_, _, _)
FindIter(toks, from, pat) ==
    LET starts == {i \in from..Len(toks) :
                      IsOpen(pat, toks[i]) /\ Closes(toks, pat, i) # {}}
    IN  IF starts = {} THEN <<>>
        ELSE LET i == SetMin(starts)
                 j == SetMin(Closes(toks, pat, i))
             IN  <<[s |-> i, e |-> j]>> \o FindIter(toks, j + 1, pat)

\* A parameter value stored as it stands between its tags.
RawValue(raw) == raw

\* Value stored for a parameter.
ParamValue(raw) == Strip(raw)

\* The params dict built from the text between the tags of a call.
RECURSIVE ParamsLoop(_, _, _, _)
ParamsLoop(inner, ms, params, ppat) ==
    IF ms = <<>> THEN params
    ELSE LET pm == Head(ms)
         IN  ParamsLoop(inner, Tail(ms),
                        DictSet(params, OpenName(ppat, inner[pm.s]),
                                ParamValue(SubSeq(inner, pm.s + 1, pm.e - 1))),
                        ppat)

ParseParams(inner, ppat) == ParamsLoop(inner, FindIter(inner, 1, ppat), <<>>, ppat)

MakeCall(name, params) ==
    [id |-> "call_uuid", type |-> "function",
     function |-> [name |-> name, arguments |-> JsonDumps(params)]]

\* One grammar's loop over its matches in text: a call is appended and its
\* span removed from remaining (patterns 2 and 3 only when params is
\* non-empty).
RECURSIVE GrammarLoop(_, _, _, _, _, _)
GrammarLoop(text_, ms, acc, pat, ppat, need_params) ==
    IF ms = <<>> THEN acc
    ELSE LET m == Head(ms)
             params == ParseParams(SubSeq(text_, m.s + 1, m.e - 1), ppat)
             acc1 ==
                 IF need_params /\ params = <<>> THEN acc
                 ELSE [tool_calls |->
                           Append(acc.tool_calls,
                                  MakeCall(OpenName(pat, text_[m.s]), params)),
                       remaining |->
                           ReplaceAll(acc.remaining, SubSeq(text_, m.s, m.e))]
         IN  GrammarLoop(text_, Tail(ms), acc1, pat, ppat, need_params)

\* str.startswith over the tag names.
StartsWith(n, tag) == n = tag \/ (n = "actions" /\ tag = "action")

\* Names a tag's name can have for re "</?tag[^>]*>" to match it: [^>]*
\* takes whatever follows the wrapper's name up to the ">".
NamesWithPrefix(tag) == {n \in TagNames : StartsWith(n, tag)}

\* re.sub(r"</?tag[^>]*>", "", s) for each tag of tags.
StripWrappers(s, tags) ==
    SelectSeq(s, LAMBDA a :
        ~\E tag \in tags : \E n \in NamesWithPrefix(tag) :
            a \in {TagOpen(n), TagClose(n)})

\* Pattern 3 compiled for every tool name, known or not.
AnyToolName(known) == ToolNamesInText

\* Which tool names pattern 3 compiles into simple_pat.
SimpleNames(known) == {known[i] : i \in 1..Len(known)}

\* The three grammars run one after the other with their calls merged.
ExtractMerging(text_, known) ==
    LET g1 == GrammarLoop(text_, FindIter(text_, 1, InvokePat),
                          [tool_calls |-> <<>>, remaining |-> text_],
                          InvokePat, ParamPat, FALSE)
        g2 == GrammarLoop(text_, FindIter(text_, 1, QwenFuncPat),
                          [tool_calls |-> g1.tool_calls,
                           remaining |-> g1.remaining],
                          QwenFuncPat, QwenParamPat, TRUE)
        g3 == GrammarLoop(text_, FindIter(text_, 1, SimplePat(SimpleNames(known))),
                          [tool_calls |-> g2.tool_calls,
                           remaining |-> g2.remaining],
                          SimplePat(SimpleNames(known)), InnerPat, TRUE)
    IN  [tool_calls |-> g3.tool_calls,
         cleaned |-> Strip(StripWrappers(g3.remaining, WrapperNames)),
         returned_at |-> IF g1.tool_calls # <<>> THEN 94
                         ELSE IF g2.tool_calls # <<>> THEN 127 ELSE 153]

\* known is the known_tools list; None and [] are both <<>>.
ExtractToolCalls(text_, known) ==
    LET g1 == GrammarLoop(text_, FindIter(text_, 1, InvokePat),
                          [tool_calls |-> <<>>, remaining |-> text_],
                          InvokePat, ParamPat, FALSE)
        r1 == StripWrappers(g1.remaining, {"function_calls", "action"})
        g2 == GrammarLoop(text_, FindIter(text_, 1, QwenFuncPat),
                          [tool_calls |-> <<>>, remaining |-> r1],
                          QwenFuncPat, QwenParamPat, TRUE)
        r2 == StripWrappers(g2.remaining, {"tool_call"})
        g3 == GrammarLoop(text_, FindIter(text_, 1, SimplePat(SimpleNames(known))),
                          [tool_calls |-> <<>>, remaining |-> r2],
                          SimplePat(SimpleNames(known)), InnerPat, TRUE)
        r3 == StripWrappers(g3.remaining, {"action", "function_calls"})
    IN  IF g1.tool_calls # <<>>
        THEN [tool_calls |-> g1.tool_calls, cleaned |-> Strip(r1),
              returned_at |-> 94]
        ELSE IF g2.tool_calls # <<>>
        THEN [tool_calls |-> g2.tool_calls, cleaned |-> Strip(r2),
              returned_at |-> 127]
        ELSE IF known # <<>>
        THEN [tool_calls |-> g3.tool_calls, cleaned |-> Strip(r3),
              returned_at |-> 153]
        ELSE [tool_calls |-> <<>>, cleaned |-> Strip(r2), returned_at |-> 153]

----------------------------------------------------------------------------
(* Request translator: _handle_messages up to the backend call.            *)
(* A message's content, a tool_result's content and the system prompt are  *)
(* a str or a list: [kind |-> "str", text |-> s] or                        *)
(* [kind |-> "list", blocks |-> <<...>>].  A content block is a dict; a    *)
(* list item that is no dict is [str |-> s], s being its str().            *)

MAX_TOKENS_CAP == 4096
SYSTEM_PROMPT_MAX_CHARS == 4000
ALLOWED_TOOLS ==
    {"Bash", "Read", "Write", "Edit", "Glob", "Grep", "WebFetch", "WebSearch",
     "NotebookEdit"}
DefaultMaxTokens == 4096
DefaultModel == "qwen3-coder:30b"
HintMaxTools == 15

StrContent(s) == [kind |-> "str", text |-> s]
ListContent(bs) == [kind |-> "list", blocks |-> bs]
IsList(c) == c.kind = "list"
IsDict(b) == "str" \notin DOMAIN b

\* "\n...(truncated for local model)"
TruncationSuffix ==
    <<"\n", ".", ".", ".", "(", "t", "r", "u", "n", "c", "a", "t", "e", "d",
      " ", "f", "o", "r", " ", "l", "o", "c", "a", "l", " ", "m", "o", "d",
      "e", "l", ")">>

\* fc_hint: its fixed head and tail are one atom each, every tool name one
\* atom, ", " one atom.
FcHintHead ==
    "\n\n[IMPORTANT: FUNCTION CALLING]\nYou have tools available via function calling: "
FcHintTail ==
    ".\nWhen you need to perform any action, you MUST use function calls. ... Do NOT use Task or AskUserQuestion.\n"
FcHint(tool_names) ==
    <<FcHintHead>>
    \o Join(Map(Prefix(tool_names, HintMaxTools), LAMBDA n : <<n>>), <<", ">>)
    \o <<FcHintTail>>

\* max_tokens forwarded as it came.
ForwardMaxTokens(n) == n

\* min(req.get("max_tokens", 4096), MAX_TOKENS_CAP)
ClampMaxTokens(n) == Min(n, MAX_TOKENS_CAP)

\* tools_list left as it came.
KeepTools(tools_list) == tools_list

\* tools_list after the allow-list filter (ALLOWED_TOOLS is not None).
FilterTools(tools_list) ==
    IF tools_list # <<>>
    THEN SelectSeq(tools_list, LAMBDA t : Get(t, "name", "") \in ALLOWED_TOOLS)
    ELSE tools_list

\* The stream flag forwarded as it came.
ForwardStream(has_tools, stream) == stream

\* The stream flag of the backend request: "if has_tools and stream".
BackendStream(has_tools, stream) ==
    IF has_tools /\ stream THEN FALSE ELSE stream

\* sys_text before truncation.
SystemText(system) ==
    IF IsList(system)
    THEN Join(Map(SelectSeq(system.blocks,
                            LAMBDA b : Get(b, "type", "") = "text"),
                  LAMBDA b : Get(b, "text", <<>>)),
              <<"\n">>)
    ELSE system.text

\* sys_text forwarded whole.
KeepSystem(sys_text) == sys_text

TruncateSystem(sys_text) ==
    IF Len(sys_text) > SYSTEM_PROMPT_MAX_CHARS
    THEN SubSeq(sys_text, 1, SYSTEM_PROMPT_MAX_CHARS) \o TruncationSuffix
    ELSE sys_text

\* The directive appended to the system text.
SystemHint(has_tools, tool_names) ==
    IF has_tools THEN FcHint(tool_names) ELSE <<>>

\* "if system:" and the message it appends.
SystemMessages(system, has_tools, tool_names) ==
    IF (IF IsList(system) THEN system.blocks # <<>> ELSE system.text # <<>>)
    THEN <<[role |-> "system",
            content |-> TruncateSystem(SystemText(system))
                        \o SystemHint(has_tools, tool_names)]>>
    ELSE <<>>

BlockType(b) == IF IsDict(b) THEN Get(b, "type", "") ELSE "(not a dict)"

\* str() of a dict that has no "text": its repr, one atom.
ReprText == <<"{...}">>

\* A call that keeps the block's type.
ToolCallTyped(block) ==
    [id |-> Get(block, "id", "call_uuid"), type |-> "tool_use",
     function |-> [name |-> Get(block, "name", ""),
                   arguments |-> JsonDumps(Get(block, "input", <<>>))]]

ToolCallOf(block) ==
    [id |-> Get(block, "id", "call_uuid"), type |-> "function",
     function |-> [name |-> Get(block, "name", ""),
                   arguments |-> JsonDumps(Get(block, "input", <<>>))]]

ToolResultText(result_content) ==
    IF IsList(result_content)
    THEN Join(Map(SelectSeq(result_content.blocks, IsDict),
                  LAMBDA b : Get(b, "text", ReprText)),
              <<"\n">>)
    ELSE result_content.text

ToolMessageOf(block) ==
    [role |-> "tool", tool_call_id |-> Get(block, "tool_use_id", ""),
     content |-> ToolResultText(Get(block, "content", StrContent(<<>>)))]

\* Only the first tool_result of a list content.
FirstToolResult(blocks) ==
    Prefix(Map(SelectSeq(blocks, LAMBDA b : BlockType(b) = "tool_result"),
               ToolMessageOf), 1)

\* The tool messages a list content yields ("if tool_results: ... continue").
ToolResultsOf(blocks) ==
    Map(SelectSeq(blocks, LAMBDA b : BlockType(b) = "tool_result"),
        ToolMessageOf)

\* The backend messages one inbound message yields.
\* A message translated without the "continue" after its tool messages.
TranslateMessageOn(msg) ==
    LET role == Get(msg, "role", "user")
        content == Get(msg, "content", StrContent(<<>>))
        blocks == content.blocks
        text_parts ==
            Map(SelectSeq(blocks, LAMBDA b : BlockType(b) \in {"text", "(not a dict)"}),
                LAMBDA b : IF IsDict(b) THEN Get(b, "text", <<>>) ELSE b.str)
        tool_calls_out ==
            Map(SelectSeq(blocks, LAMBDA b : BlockType(b) = "tool_use"),
                ToolCallOf)
    IN  IF ~IsList(content)
        THEN <<[role |-> role, content |-> content.text]>>
        ELSE ToolResultsOf(blocks)
             \o (IF tool_calls_out # <<>>
                 THEN <<[role |-> "assistant",
                         content |-> IF text_parts # <<>>
                                     THEN Join(text_parts, <<"\n">>)
                                     ELSE NoneValue,
                         tool_calls |-> tool_calls_out]>>
                 ELSE <<[role |-> role,
                         content |-> Join(text_parts, <<"\n">>)]>>)

TranslateMessage(msg) ==
    LET role == Get(msg, "role", "user")
        content == Get(msg, "content", StrContent(<<>>))
        blocks == content.blocks
        text_parts ==
            Map(SelectSeq(blocks, LAMBDA b : BlockType(b) \in {"text", "(not a dict)"}),
                LAMBDA b : IF IsDict(b) THEN Get(b, "text", <<>>) ELSE b.str)
        tool_calls_out ==
            Map(SelectSeq(blocks, LAMBDA b : BlockType(b) = "tool_use"),
                ToolCallOf)
        tool_results == ToolResultsOf(blocks)
    IN  IF ~IsList(content)
        THEN <<[role |-> role, content |-> content.text]>>
        ELSE IF tool_results # <<>> THEN tool_results
        ELSE IF tool_calls_out # <<>>
        THEN <<[role |-> "assistant",
                content |-> IF text_parts # <<>>
                            THEN Join(text_parts, <<"\n">>)
                            ELSE NoneValue,
                tool_calls |-> tool_calls_out]>>
        ELSE <<[role |-> role, content |-> Join(text_parts, <<"\n">>)]>>

RECURSIVE TranslateMessagesBackwards(_)
\* The messages translated last to first.
TranslateMessagesBackwards(messages) ==
    IF messages = <<>> THEN <<>>
    ELSE TranslateMessagesBackwards(Tail(messages))
         \o TranslateMessage(Head(messages))

RECURSIVE TranslateMessages(_)
TranslateMessages(messages) ==
    IF messages = <<>> THEN <<>>
    ELSE TranslateMessage(Head(messages)) \o TranslateMessages(Tail(messages))

\* Every tool forwarded, whatever its type.
ForwardsAnyTool(tool) == TRUE

\* "if tool_type in ("custom", "")"
ForwardsTool(tool) == Get(tool, "type", "") \in {"custom", ""}

OaiToolOf(tool) ==
    [type |-> "function",
     function |-> [name |-> Get(tool, "name", ""),
                   description |-> Get(tool, "description", ""),
                   parameters |-> Get(tool, "input_schema", "{}")]]

\* Everything _handle_messages computes before it calls the backend.
Translate(r) ==
    LET tools_in == Get(r, "tools", <<>>)
        tools_list == FilterTools(tools_in)
        r1 == IF tools_in # <<>> THEN DictPut(r, "tools", tools_list) ELSE r
        has_tools == tools_list # <<>>
        tool_names == Map(tools_list, LAMBDA t : Get(t, "name", ""))
        stream == Get(r, "stream", FALSE)
        oai_messages ==
            SystemMessages(Get(r, "system", StrContent(<<>>)), has_tools,
                           tool_names)
            \o TranslateMessages(Get(r, "messages", <<>>))
        base == [model |-> Get(r, "model", DefaultModel),
                 messages |-> oai_messages,
                 max_tokens |-> ClampMaxTokens(Get(r, "max_tokens", DefaultMaxTokens)),
                 temperature |-> Get(r, "temperature", "0.7"),
                 stream |-> BackendStream(has_tools, stream)]
        oai_tools ==
            Map(SelectSeq(Get(r1, "tools", <<>>), ForwardsTool), OaiToolOf)
    IN  [req |-> r1,
         current_tool_names |-> tool_names,
         original_stream |-> stream,
         oai_req |-> IF oai_tools # <<>>
                     THEN [tools |-> oai_tools, tool_choice |-> "auto"] @@ base
                     ELSE base]

----------------------------------------------------------------------------
(* Response translators for a complete backend response:                   *)
(* _process_ollama_response, _handle_sync, _handle_sync_as_sse             *)

\* finish_reason -> stop_reason with every other value turned into "end_turn"
StopReasonEndTurn(finish_reason) ==
    IF finish_reason = "tool_calls" THEN "tool_use" ELSE "end_turn"

\* finish_reason -> stop_reason
StopReason(finish_reason) ==
    IF finish_reason = "tool_calls" THEN "tool_use"
    ELSE IF finish_reason = "stop" THEN "end_turn"
    ELSE finish_reason

\* The salvage extractor run whether or not the request has tool names.
RunsWithoutNames(tool_calls, content_text, tool_names) ==
    tool_calls = <<>> /\ Truthy(content_text)

\* Whether the salvage extractor is run.
RunsExtractor(tool_calls, content_text, tool_names) ==
    tool_calls = <<>> /\ Truthy(content_text) /\ tool_names # <<>>

\* The four values _process_ollama_response returns.
Processed(content_text, reasoning_text, tool_calls, finish_reason) ==
    [content_text |-> content_text, reasoning_text |-> reasoning_text,
     tool_calls |-> tool_calls, finish_reason |-> finish_reason]

\* The salvage branch, ex the extractor's result: a non-empty result
\* replaces tool_calls and content_text and sets finish_reason.
Salvage(ex, content_text, reasoning_text, tool_calls, finish_reason) ==
    IF ex.tool_calls # <<>>
    THEN Processed(ex.cleaned, reasoning_text, ex.tool_calls, "tool_calls")
    ELSE Processed(content_text, reasoning_text, tool_calls, finish_reason)

ProcessChoice(content_text, reasoning_text, tool_calls, finish_reason, tool_names) ==
    IF RunsExtractor(tool_calls, content_text, tool_names)
    THEN Salvage(ExtractToolCalls(content_text, tool_names), content_text,
                 reasoning_text, tool_calls, finish_reason)
    ELSE Processed(content_text, reasoning_text, tool_calls, finish_reason)

ChoiceOf(oai_resp) == Get(oai_resp, "choices", <<EmptyDict>>)[1]
MessageOf(oai_resp) == Get(ChoiceOf(oai_resp), "message", EmptyDict)

ProcessOllamaResponse(oai_resp, tool_names) ==
    ProcessChoice(Get(MessageOf(oai_resp), "content", <<>>),
                  Get(MessageOf(oai_resp), "reasoning", <<>>),
                  Get(MessageOf(oai_resp), "tool_calls", <<>>),
                  Get(ChoiceOf(oai_resp), "finish_reason", "end_turn"),
                  tool_names)

\* json.loads(arguments), or {} when it is not valid JSON.
ParsedOrEmpty(func) ==
    LET arguments == Get(func, "arguments", JsonDumps(<<>>))
    IN  IF JsonValid(arguments) THEN JsonLoads(arguments) ELSE <<>>

\* json.loads(arguments), or {"raw": arguments} when it is not valid JSON.
ToolInput(func) ==
    LET arguments == Get(func, "arguments", JsonDumps(<<>>))
    IN  IF JsonValid(arguments) THEN JsonLoads(arguments)
        ELSE <<[k |-> "raw", v |-> arguments.value]>>

\* Ids of backend calls that already start with "toolu_".
TooluIds == {"toolu_backend"}

SyncToolUseId(raw_id) == IF raw_id \in TooluIds THEN raw_id ELSE "toolu_uuid"

SyncToolBlock(tc) ==
    LET func == Get(tc, "function", EmptyDict)
    IN  [type |-> "tool_use", id |-> SyncToolUseId(Get(tc, "id", "")),
         name |-> Get(func, "name", ""), input |-> ToolInput(func)]

\* No block appended when content_blocks is empty.
NoBlocks(reasoning_text) == <<>>

\* The block appended when content_blocks is empty.
EmptyResponseBlocks(reasoning_text) ==
    <<[type |-> "text",
       text |-> IF Truthy(reasoning_text) THEN reasoning_text ELSE <<>>]>>

\* content_blocks with the text block put before the thinking block
SyncBlocksTextFirst(p) ==
    LET blocks ==
            (IF Truthy(p.content_text)
             THEN <<[type |-> "text", text |-> p.content_text]>>
             ELSE <<>>)
            \o (IF Truthy(p.reasoning_text)
                THEN <<[type |-> "thinking", thinking |-> p.reasoning_text]>>
                ELSE <<>>)
            \o Map(p.tool_calls, SyncToolBlock)
    IN  IF blocks = <<>> THEN EmptyResponseBlocks(p.reasoning_text) ELSE blocks

\* content_blocks of _handle_sync
SyncBlocks(p) ==
    LET blocks ==
            (IF Truthy(p.reasoning_text)
             THEN <<[type |-> "thinking", thinking |-> p.reasoning_text]>>
             ELSE <<>>)
            \o (IF Truthy(p.content_text)
                THEN <<[type |-> "text", text |-> p.content_text]>>
                ELSE <<>>)
            \o Map(p.tool_calls, SyncToolBlock)
    IN  IF blocks = <<>> THEN EmptyResponseBlocks(p.reasoning_text) ELSE blocks

Usage(oai_resp, key) == Get(Get(oai_resp, "usage", EmptyDict), key, 0)

\* The response _handle_sync writes, p the processed backend response.
SyncResponseOf(p, oai_resp, model) ==
    [status |-> 200, ctype |-> "application/json",
     data |-> [id |-> "msg_uuid", type |-> "message", role |-> "assistant",
               content |-> SyncBlocks(p), model |-> model,
               stop_reason |-> StopReason(p.finish_reason),
               usage |-> [input_tokens |-> Usage(oai_resp, "prompt_tokens"),
                          output_tokens |-> Usage(oai_resp, "completion_tokens"),
                          cache_creation_input_tokens |-> 0,
                          cache_read_input_tokens |-> 0]]]

SyncResponse(oai_resp, tool_names, model) ==
    SyncResponseOf(ProcessOllamaResponse(oai_resp, tool_names), oai_resp, model)

EmptyResponseText == <<"(empty response)">>

\* start, the payload in two deltas, stop
SseBlockInPieces(i, start, dtype, payload) ==
    <<start, EvDelta(i, dtype, <<>>), EvDelta(i, dtype, payload), EvStop(i)>>

\* start, one delta, stop of one block
SseBlock(i, start, dtype, payload) ==
    <<start, EvDelta(i, dtype, payload), EvStop(i)>>

RECURSIVE SseToolBlocks(_, _)
SseToolBlocks(tool_calls, i) ==
    IF tool_calls = <<>> THEN <<>>
    ELSE LET func == Get(Head(tool_calls), "function", EmptyDict)
         IN  SseBlock(i, EvToolStart(i, Get(func, "name", "")),
                      "input_json_delta", JsonDumps(ToolInput(func)))
             \o SseToolBlocks(Tail(tool_calls), i + 1)

\* The events _handle_sync_as_sse writes, p the processed backend response.
SyncAsSseEventsOf(p, oai_resp) ==
    LET n_r == IF Truthy(p.reasoning_text) THEN 1 ELSE 0
        n_c == IF Truthy(p.content_text) THEN 1 ELSE 0
        block_index == n_r + n_c + Len(p.tool_calls)
    IN  <<EvMessageStart(Usage(oai_resp, "prompt_tokens"))>>
        \o (IF n_r = 1
            THEN SseBlock(0, EvStart(0, "thinking"), "thinking_delta",
                          p.reasoning_text)
            ELSE <<>>)
        \o (IF n_c = 1
            THEN SseBlock(n_r, EvStart(n_r, "text"), "text_delta",
                          p.content_text)
            ELSE <<>>)
        \o SseToolBlocks(p.tool_calls, n_r + n_c)
        \o (IF block_index = 0
            THEN SseBlock(0, EvStart(0, "text"), "text_delta",
                          EmptyResponseText)
            ELSE <<>>)
        \o <<EvMessageDelta(StopReason(p.finish_reason),
                            Usage(oai_resp, "completion_tokens")),
             EvMessageStop>>

SyncAsSseEvents(oai_resp, tool_names) ==
    SyncAsSseEventsOf(ProcessOllamaResponse(oai_resp, tool_names), oai_resp)

----------------------------------------------------------------------------
(* Responses written by _respond, and the two error responses of           *)
(* _handle_messages                                                        *)

JsonResponse(status, data) ==
    [status |-> status, ctype |-> "application/json", data |-> data]

ApiError(status, message) ==
    JsonResponse(status, [type |-> "error",
                          error |-> [type |-> "api_error", message |-> message]])

\* except urllib.error.URLError
ConnectionFailed == ApiError(502, "ollama connection failed")
\* except Exception
OtherFailure == ApiError(500, "str(e)")

----------------------------------------------------------------------------
(* True-stream translator: _handle_stream *)

ThinkingLimitText == <<"(thinking limit reached)">>

\* The lines the backend stream can carry.
DeltaTexts == {<<>>, <<"x">>}

\* "other" is a line without the "data: " prefix, "badjson" a data line
\* json.loads rejects, "data" a chunk whose delta carries reasoning and
\* content, "tool_delta" a chunk whose delta carries only tool_calls.
StreamLines ==
    {[kind |-> "other"], [kind |-> "badjson"], [kind |-> "tool_delta"]}
    \cup {[kind |-> "data", reasoning |-> r, content |-> c] :
              r \in DeltaTexts, c \in DeltaTexts}

\* What the read loop takes from a line: delta.get("reasoning", "") and
\* delta.get("content", ""); no other key of the delta is read.
LineReasoning(line) == IF line.kind = "data" THEN line.reasoning ELSE <<>>
\* A text delta taken from every line the loop decodes.
LineContentOfAny(line) == IF line.kind = "data" THEN line.content ELSE <<"x">>
LineContent(line) == IF line.kind = "data" THEN line.content ELSE <<>>

\* Failures inside the read loop that are not a JSONDecodeError: the read
\* times out, or a chunk parses to JSON of another shape ("choices": []).
StreamFailures == {"read_timeout", "bad_chunk"}

\* _send_sse on a burst of events.  To a connected client they are written.
\* On a connection the client closed, every write raises BrokenPipeError,
\* which _send_sse swallows.  On a connection the client reset, the first
\* write raises ConnectionResetError, which _send_sse does not catch.
Written(evs) == IF client = "connected" THEN evs ELSE <<>>
WriteRaises(evs) == client = "reset" /\ evs # <<>>

\* _respond on the connection: the write raises unless the client is there.
RespondRaises == client # "connected"

\* One decoded increment with the counter raised once for the increment.
IncrementCountedOnce(reasoning, text_) ==
    LET opens_thinking == Truthy(reasoning) /\ ~reasoning_started
        ev_r == IF Truthy(reasoning)
                THEN (IF opens_thinking
                      THEN <<EvStart(content_index, "thinking")>>
                      ELSE <<>>)
                     \o <<EvDelta(content_index, "thinking_delta", reasoning)>>
                ELSE <<>>
        in1 == IF opens_thinking THEN TRUE ELSE in_reasoning
        closes == Truthy(text_) /\ in1
        idx2 == IF closes THEN content_index + 1 ELSE content_index
        ev_t == IF Truthy(text_)
                THEN (IF closes THEN <<EvStop(content_index)>> ELSE <<>>)
                     \o (IF ~content_started
                         THEN <<EvStart(idx2, "text")>>
                         ELSE <<>>)
                     \o <<EvDelta(idx2, "text_delta", text_)>>
                ELSE <<>>
    IN  [in_reasoning |-> IF closes THEN FALSE ELSE in1,
         reasoning_started |-> reasoning_started \/ Truthy(reasoning),
         content_started |-> content_started \/ Truthy(text_),
         content_index |-> idx2,
         total_output_tokens |->
             total_output_tokens
             + (IF Truthy(reasoning) \/ Truthy(text_) THEN 1 ELSE 0),
         emitted |-> ev_r \o ev_t]

\* One decoded increment (the body of the try block).
IncrementEffect(reasoning, text_) ==
    LET opens_thinking == Truthy(reasoning) /\ ~reasoning_started
        ev_r == IF Truthy(reasoning)
                THEN (IF opens_thinking
                      THEN <<EvStart(content_index, "thinking")>>
                      ELSE <<>>)
                     \o <<EvDelta(content_index, "thinking_delta", reasoning)>>
                ELSE <<>>
        in1 == IF opens_thinking THEN TRUE ELSE in_reasoning
        rs1 == reasoning_started \/ Truthy(reasoning)
        tok1 == total_output_tokens + (IF Truthy(reasoning) THEN 1 ELSE 0)
        closes == Truthy(text_) /\ in1
        idx2 == IF closes THEN content_index + 1 ELSE content_index
        ev_t == IF Truthy(text_)
                THEN (IF closes THEN <<EvStop(content_index)>> ELSE <<>>)
                     \o (IF ~content_started
                         THEN <<EvStart(idx2, "text")>>
                         ELSE <<>>)
                     \o <<EvDelta(idx2, "text_delta", text_)>>
                ELSE <<>>
    IN  [in_reasoning |-> IF closes THEN FALSE ELSE in1,
         reasoning_started |-> rs1,
         content_started |-> content_started \/ Truthy(text_),
         content_index |-> idx2,
         total_output_tokens |-> tok1 + (IF Truthy(text_) THEN 1 ELSE 0),
         emitted |-> ev_r \o ev_t]

\* Whether the fallback block gets its own content_block_start.
FallbackOpensBlock == reasoning_started

\* The code after the read loop.
FinishEffect ==
    LET idx1 == IF in_reasoning THEN content_index + 1 ELSE content_index
        ev1 == IF in_reasoning THEN <<EvStop(content_index)>> ELSE <<>>
        ev2 == IF ~content_started
               THEN (IF FallbackOpensBlock
                     THEN <<EvStart(idx1, "text")>>
                     ELSE <<>>)
                    \o <<EvDelta(idx1, "text_delta", ThinkingLimitText)>>
               ELSE <<>>
    IN  [content_index |-> idx1,
         emitted |-> ev1 \o ev2
                     \o <<EvStop(idx1),
                          EvMessageDelta("end_turn", total_output_tokens),
                          EvMessageStop>>]

\* An exception of _send_sse leaves the try block of _handle_messages
\* through "except Exception", whose _respond(500) raises in turn on the dead
\* connection and leaves do_POST.
SendFailed ==
    /\ pc' = "raised"
    /\ failed_responses' = Append(failed_responses, OtherFailure)
    /\ client' = "closed"
    /\ UNCHANGED <<streamLocals, events, responses>>

\* One line read from the backend stream that is not the terminal marker.
StreamLine ==
    /\ pc = "stream"
    /\ Len(resp_lines) < MaxLines
    /\ \E line \in StreamLines :
        /\ resp_lines' = Append(resp_lines, line)
        /\ IF line.kind \in {"data", "tool_delta"}
           THEN LET e == IncrementEffect(LineReasoning(line), LineContent(line))
                IN  IF WriteRaises(e.emitted)
                    THEN SendFailed
                    ELSE /\ in_reasoning' = e.in_reasoning
                         /\ reasoning_started' = e.reasoning_started
                         /\ content_started' = e.content_started
                         /\ content_index' = e.content_index
                         /\ total_output_tokens' = e.total_output_tokens
                         /\ events' = events \o Written(e.emitted)
                         /\ UNCHANGED <<pc, responses, connectionVars>>
           ELSE UNCHANGED <<pc, streamLocals, events, responses, connectionVars>>
    /\ UNCHANGED <<requestVars, backend, backend_calls, extractorVars,
                   threadVars>>

\* The stream ends: the "[DONE]" line is read, or read() returns no more bytes.
StreamEnd ==
    /\ pc = "stream"
    /\ \E how \in {"done", "eof"} :
        resp_lines' = Append(resp_lines, [kind |-> how])
    /\ LET f == FinishEffect
       IN  IF WriteRaises(f.emitted)
           THEN SendFailed
           ELSE /\ content_index' = f.content_index
                /\ events' = events \o Written(f.emitted)
                /\ pc' = "done"
                /\ UNCHANGED <<in_reasoning, reasoning_started, content_started,
                               total_output_tokens, responses, connectionVars>>
    /\ UNCHANGED <<requestVars, backend, backend_calls, extractorVars,
                   threadVars>>

\* The read loop raises: "except Exception" answers 500 on the connection
\* that already carries the 200 head and the events written so far.
StreamFail ==
    /\ pc = "stream"
    /\ \E why \in StreamFailures :
        /\ resp_lines' = Append(resp_lines, [kind |-> why])
        /\ backend' = [outcome |-> why]
    /\ IF RespondRaises
       THEN /\ pc' = "raised"
            /\ failed_responses' = Append(failed_responses, OtherFailure)
            /\ UNCHANGED <<responses, client>>
       ELSE /\ pc' = "done"
            /\ responses' = Append(responses, OtherFailure)
            /\ UNCHANGED connectionVars
    /\ UNCHANGED <<requestVars, backend_calls, streamLocals, events,
                   extractorVars, threadVars>>

\* The client goes away while the stream is being written: it closes the
\* connection, or the connection is reset (closed with unread data).
Disconnect ==
    /\ pc = "stream"
    /\ client = "connected"
    /\ client' \in {"closed", "reset"}
    /\ UNCHANGED <<pc, requestVars, backend, backend_calls, resp_lines,
                   streamLocals, responses, events, extractorVars,
                   failed_responses, threadVars>>

----------------------------------------------------------------------------
(* Inputs: the requests, backend behaviours and texts the specifications   *)
(* draw from                                                               *)

\* {} or {k: v} for each v of vals
OptKey(k, vals) == {EmptyDict} \cup {k :> v : v \in vals}

SeqsUpTo(S, n) == UNION {[1..k -> S] : k \in 0..n}

Tool(name) == [name |-> name, description |-> "d", input_schema |-> "{}"]

\* A tool that carries a "type" key.
TypedTool(name, type) == [type |-> type] @@ Tool(name)

\* One tool more than the directive names, all on the allow-list.
AllowedOrder ==
    <<"Bash", "Read", "Write", "Edit", "Glob", "Grep", "WebFetch",
      "WebSearch", "NotebookEdit">>
ManyTools ==
    [i \in 1..(HintMaxTools + 1) |->
        Tool(AllowedOrder[((i - 1) % Len(AllowedOrder)) + 1])]

UserMessage == [role |-> "user", content |-> StrContent(<<"h", "i">>)]

\* Tool lists of the gateway's requests: an allowed and a filtered name.
GatewayToolLists == SeqsUpTo({Tool("Bash"), Tool("Task")}, MaxTools)

\* A request whose messages list holds a str where a message dict belongs.
StrMessageRequest == [messages |-> <<[str |-> <<"h", "i">>]>>]

GatewayRequests ==
    {st @@ tl @@ mt @@ [messages |-> <<UserMessage>>] :
        st \in OptKey("stream", BOOLEAN),
        tl \in OptKey("tools", GatewayToolLists),
        mt \in OptKey("max_tokens", {32000})}
    \cup {StrMessageRequest}

Bodies ==
    {[kind |-> k] : k \in {"malformed", "not_utf8", "empty", "non_object"}}
    \cup {[kind |-> "json", value |-> r] : r \in GatewayRequests}

Paths == {"/v1/messages", "/v1/messages/count_tokens", "/other"}

\* Backend chat completions.
LsArgs == <<[k |-> "command", v |-> <<"l", "s">>]>>
BashCall ==
    [id |-> "call_1", type |-> "function",
     function |-> [name |-> "Bash", arguments |-> JsonDumps(LsArgs)]]
ReadCall ==
    [id |-> "toolu_backend", type |-> "function",
     function |-> [name |-> "Read",
                   arguments |-> JsonDumps(<<[k |-> "path", v |-> <<"x">>]>>)]]
BadArgsCall ==
    [id |-> "call_2", type |-> "function",
     function |-> [name |-> "Bash",
                   arguments |-> [json |-> "invalid",
                                  value |-> <<"{", "l", "s">>]]]

BackendToolCalls ==
    {<<>>, <<BashCall>>, <<BadArgsCall>>, <<ReadCall, BashCall>>,
     <<BadArgsCall, BashCall>>}

InvokeLs ==
    <<InvokeOpen("Bash"), ParamOpen("command"), "l", "s", ParamClose,
      InvokeClose>>
BareLs ==
    <<TagOpen("Bash"), TagOpen("command"), "l", "s", TagClose("command"),
      TagClose("Bash")>>

BackendContents ==
    {<<>>, <<"h", "i">>, InvokeLs, <<"o", "k", "\n">> \o InvokeLs, BareLs}

BackendReasonings == {<<>>, <<"h", "m">>}

FinishReasons == {"stop", "tool_calls", "length"}

Completion(content, reasoning, tool_calls, finish) ==
    [choices |->
        <<finish
          @@ [message |->
                 [content |-> content]
                 @@ (IF reasoning # <<>> THEN [reasoning |-> reasoning]
                     ELSE EmptyDict)
                 @@ (IF tool_calls # <<>> THEN [tool_calls |-> tool_calls]
                     ELSE EmptyDict)]>>,
     usage |-> [prompt_tokens |-> 7, completion_tokens |-> 3]]

BackendResponses ==
    {Completion(c, r, tc, f) :
        c \in BackendContents, r \in BackendReasonings,
        tc \in BackendToolCalls, f \in OptKey("finish_reason", FinishReasons)}

\* What urlopen and the read of the response can do.  "urlerror" is a
\* refused connection and "connect_timeout" a timeout while connecting or
\* sending: urllib wraps both in URLError.  "read_timeout" is a timeout
\* while waiting for the response or reading it: socket.timeout, which is
\* not a URLError.  "badjson" is a body json.loads rejects.
CallFailures == {"urlerror", "connect_timeout", "read_timeout"}

BackendBehaviours ==
    {[outcome |-> o] : o \in CallFailures \cup {"badjson"}}
    \cup {[outcome |-> "ok", resp |-> r] : r \in BackendResponses}

\* The error response of the try block of _handle_messages for a failed
\* backend call.
FailureResponse(outcome) ==
    IF outcome \in {"urlerror", "connect_timeout"} THEN ConnectionFailed
    ELSE OtherFailure

\* Requests that reach _handle_sync or _handle_sync_as_sse.
SyncRequests ==
    {[stream |-> st, messages |-> <<UserMessage>>] @@ tl :
        st \in BOOLEAN,
        tl \in OptKey("tools", {<<Tool("Bash")>>, <<Tool("Read"), Tool("Bash")>>,
                                <<Tool("Task")>>})}
    \ {[stream |-> TRUE, messages |-> <<UserMessage>>] @@ tl :
        tl \in OptKey("tools", {<<Tool("Task")>>})}

\* A request that reaches _handle_stream.
StreamRequest == [stream |-> TRUE, messages |-> <<UserMessage>>]

\* System prompts: texts of the lengths around the cap, as a str and as a
\* list of blocks.  Character i of a generated text is the digit i mod 10.
Digits == <<"0", "1", "2", "3", "4", "5", "6", "7", "8", "9">>
Chars(n) == [i \in 1..n |-> Digits[(i % 10) + 1]]

TextBlock(t) == [type |-> "text", text |-> t]
ImageBlock == [type |-> "image"]
ThinkingBlock == [type |-> "thinking", thinking |-> <<"h", "m">>]
ToolUseBlock(id, name) ==
    [type |-> "tool_use", id |-> id, name |-> name, input |-> LsArgs]
ToolResultBlock(id, c) ==
    [type |-> "tool_result", tool_use_id |-> id, content |-> c]

SystemLengths ==
    {1, SYSTEM_PROMPT_MAX_CHARS - 1, SYSTEM_PROMPT_MAX_CHARS,
     SYSTEM_PROMPT_MAX_CHARS + 1, SYSTEM_PROMPT_MAX_CHARS + 2000}

SystemPrompts ==
    {StrContent(Chars(n)) : n \in SystemLengths \cup {0}}
    \cup {ListContent(<<>>),
          ListContent(<<TextBlock(Chars(SYSTEM_PROMPT_MAX_CHARS - 1)),
                        TextBlock(<<"z">>)>>),
          ListContent(<<TextBlock(Chars(2000)), ImageBlock,
                        TextBlock(Chars(1999))>>)}

\* The messages of a conversation.
MessageShapes ==
    {UserMessage,
     [role |-> "assistant", content |-> StrContent(<<"o", "k">>)],
     [role |-> "assistant",
      content |-> ListContent(<<TextBlock(<<"o", "k">>),
                                ToolUseBlock("toolu_1", "Bash")>>)],
     [role |-> "assistant",
      content |-> ListContent(<<ThinkingBlock, ToolUseBlock("toolu_1", "Bash"),
                                ToolUseBlock("toolu_2", "Read")>>)],
     [role |-> "assistant",
      content |-> ListContent(<<ThinkingBlock, TextBlock(<<"o", "k">>)>>)],
     [role |-> "user",
      content |-> ListContent(<<ToolResultBlock("toolu_1",
                                                StrContent(<<"o", "u", "t">>))>>)],
     [role |-> "user",
      content |-> ListContent(
          <<ToolResultBlock("toolu_1", StrContent(<<"o", "u", "t">>)),
            ToolResultBlock("toolu_2",
                            ListContent(<<TextBlock(<<"a">>), ImageBlock,
                                          TextBlock(<<"b">>)>>))>>)],
     [role |-> "user",
      content |-> ListContent(
          <<ToolResultBlock("toolu_1", StrContent(<<"o", "u", "t">>)),
            TextBlock(<<"m", "o", "r", "e">>)>>)],
     [role |-> "user",
      content |-> ListContent(<<TextBlock(<<"a">>), [str |-> <<"s">>],
                                TextBlock(<<"b">>)>>)],
     [role |-> "assistant",
      content |-> ListContent(
          <<ToolUseBlock("toolu_2", "Read"),
            ToolResultBlock("toolu_1", StrContent(<<"o", "u", "t">>))>>)],
     [role |-> "user",
      content |-> ListContent(
          <<[str |-> <<"s">>], ThinkingBlock,
            [type |-> "tool_use", name |-> "Bash", input |-> LsArgs]>>)]}

Conversations == SeqsUpTo(MessageShapes, MaxMessages)

\* Tool lists of the translator's requests: allowed and filtered names,
\* tools with no type, with the types the translator forwards ("custom",
\* "") and with another type, and a list longer than the directive names.
TranslatorToolLists ==
    {<<Tool("Bash")>>, <<Tool("Task")>>,
     <<Tool("Read"), Tool("Task"), Tool("Bash")>>,
     <<TypedTool("Bash", "custom")>>,
     <<TypedTool("Bash", "bash_20250124")>>,
     <<TypedTool("Read", ""), TypedTool("Bash", "bash_20250124"),
       TypedTool("Task", "custom"), Tool("Grep")>>,
     ManyTools}

\* Requests of the request translator: the max_tokens values around the
\* cap, the system prompts and the conversations, each with and without
\* tools.
TranslatorRequests ==
    {st @@ tl @@ mt @@ [messages |-> <<UserMessage>>] :
        st \in OptKey("stream", BOOLEAN),
        tl \in OptKey("tools", TranslatorToolLists),
        mt \in OptKey("max_tokens",
                      {0, 1, MAX_TOKENS_CAP - 1, MAX_TOKENS_CAP,
                       MAX_TOKENS_CAP + 1, 32000})}
    \cup {tl @@ [system |-> sy, messages |-> <<UserMessage>>] :
            tl \in OptKey("tools", TranslatorToolLists), sy \in SystemPrompts}
    \cup {tl @@ [messages |-> c] :
            tl \in OptKey("tools", {<<Tool("Bash")>>}), c \in Conversations}
    \cup {[system |-> StrContent(Chars(1)), messages |-> c] :
            c \in Conversations}

\* Texts of the extractor: up to MaxPieces pieces, each a run of plain
\* text, a complete element of one of the three grammars, a wrapper tag or
\* a stray tag.
ParamChild(k, v) == <<ParamOpen(k)>> \o v \o <<ParamClose>>
QwenParamChild(k, v) == <<QwenParamOpen(k)>> \o v \o <<ParamClose>>
KeyChild(k, v) == <<TagOpen(k)>> \o v \o <<TagClose(k)>>
InvokeElement(n, children) == <<InvokeOpen(n)>> \o children \o <<InvokeClose>>
FunctionElement(n, children) == <<FunctionOpen(n)>> \o children \o <<FunctionClose>>
BareElement(n, children) == <<TagOpen(n)>> \o children \o <<TagClose(n)>>

Pieces ==
    {<<"x">>, <<" ">>,
     InvokeElement("Bash", <<>>),
     InvokeElement("Bash", ParamChild("command", <<"x">>)),
     InvokeElement("Bash", ParamChild("command", <<"\n", "x", " ">>)),
     InvokeElement("Bash", ParamChild("command", <<"x">>)
                           \o ParamChild("command", <<"y">>)),
     InvokeElement("Read", ParamChild("path", <<"x">>) \o <<" ">>
                           \o ParamChild("command", <<>>)),
     FunctionElement("Bash", <<>>),
     FunctionElement("Bash", QwenParamChild("command", <<"x">>)),
     FunctionElement("Read", QwenParamChild("path", <<" ", "y">>)),
     BareElement("Bash", <<>>),
     BareElement("Bash", KeyChild("command", <<"x">>)),
     BareElement("Bash", KeyChild("Bash", <<"x">>)),
     BareElement("Read", KeyChild("path", <<"x", " ">>)
                         \o KeyChild("command", <<"y">>)),
     <<TagOpen("function_calls")>>, <<TagClose("function_calls")>>,
     <<TagOpen("tool_call")>>, <<TagClose("tool_call")>>,
     <<TagOpen("action")>>, <<TagOpen("actions")>>,
     FunctionElement("Bash", <<TagOpen("action")>>
                             \o QwenParamChild("command", <<"x">>)),
     BareElement("Bash", KeyChild("command", <<"x">>)
                         \o KeyChild("action", <<"y">>)),
     <<InvokeOpen("Bash")>>, <<InvokeClose>>, <<FunctionClose>>,
     <<TagOpen("Bash")>>, <<TagClose("Bash")>>}

RECURSIVE Concat(_)
Concat(ss) == IF ss = <<>> THEN <<>> ELSE Head(ss) \o Concat(Tail(ss))

Texts == {Concat(ps) : ps \in SeqsUpTo(Pieces, MaxPieces)}

KnownToolLists == {<<>>, <<"Bash">>, <<"Read">>, <<"Read", "Bash">>}

----------------------------------------------------------------------------
(* Gateway handler: do_POST, the dispatch at the end of _handle_messages,  *)
(* and the backend call of each response path                              *)

\* _handle_count_tokens: len // 4 of every text
RECURSIVE SumSeq(_)
SumSeq(ns) == IF ns = <<>> THEN 0 ELSE Head(ns) + SumSeq(Tail(ns))

ContentTokens(c, only_text) ==
    IF IsList(c)
    THEN SumSeq(Map(SelectSeq(c.blocks,
                              LAMBDA b : IsDict(b)
                                         /\ (only_text => BlockType(b) = "text")),
                    LAMBDA b : Len(Get(b, "text", <<>>)) \div 4))
    ELSE Len(c.text) \div 4

CountTokens(r) ==
    SumSeq(Map(Get(r, "messages", <<>>),
               LAMBDA m : ContentTokens(Get(m, "content", StrContent(<<>>)), TRUE)))
    + ContentTokens(Get(r, "system", StrContent(<<>>)), FALSE)

\* msg.get on an item of messages that is not a dict raises AttributeError
\* (in _handle_messages before its try block, and in _handle_count_tokens).
MessageGetRaises(r) ==
    \E i \in DOMAIN Get(r, "messages", <<>>) : ~IsDict(r.messages[i])

\* What json.loads does with the body: "malformed" raises JSONDecodeError,
\* "not_utf8" raises UnicodeDecodeError, "empty" is read as {}, "non_object"
\* parses to a list, a string or a number, "json" parses to the dict
\* body.value.
DoPost ==
    /\ pc = "recv"
    /\ CASE body.kind = "malformed" ->
              /\ responses' = Append(responses,
                                     JsonResponse(400, [error |-> "invalid JSON"]))
              /\ pc' = "done"
              /\ req' = req
         [] body.kind = "not_utf8" ->
              /\ pc' = "raised"
              /\ UNCHANGED <<responses, req>>
         [] body.kind = "non_object" ->
              IF path \in {"/v1/messages", "/v1/messages/count_tokens"}
              THEN /\ pc' = "raised"
                   /\ UNCHANGED <<responses, req>>
              ELSE /\ responses' = Append(responses,
                                          JsonResponse(404, [error |-> "unknown path"]))
                   /\ pc' = "done"
                   /\ req' = req
         [] body.kind \in {"empty", "json"} ->
              LET r == IF body.kind = "empty" THEN EmptyDict ELSE body.value
              IN  /\ req' = r
                  /\ IF path = "/v1/messages"
                     THEN pc' = "messages" /\ responses' = responses
                     ELSE IF path = "/v1/messages/count_tokens" /\ MessageGetRaises(r)
                     THEN pc' = "raised" /\ responses' = responses
                     ELSE /\ pc' = "done"
                          /\ responses' = Append(responses,
                               IF path = "/v1/messages/count_tokens"
                               THEN JsonResponse(200, [input_tokens |-> CountTokens(r)])
                               ELSE JsonResponse(404, [error |-> "unknown path"]))
    /\ UNCHANGED <<body, path, current_tool_names, original_stream, oai_req,
                   backend, backend_calls, resp_lines, streamLocals, events,
                   extractorVars, connectionVars,
                   threadVars>>

\* The response path chosen by the backend request's stream flag alone.
DispatchByBackendFlag(t) ==
    IF t.oai_req.stream THEN "call_stream" ELSE "call_sync"

\* The response path chosen by the client's stream flag alone.
DispatchByClientFlag(t) ==
    IF t.original_stream THEN "call_stream" ELSE "call_sync"

\* Which response path the built request takes (lines 357-362).
Dispatch(t) ==
    IF t.oai_req.stream THEN "call_stream"
    ELSE IF t.original_stream THEN "call_sse"
    ELSE "call_sync"

\* The request state _handle_messages leaves when it reaches the backend call.
Translated(r) ==
    LET t == Translate(r)
    IN  /\ req = t.req
        /\ current_tool_names = t.current_tool_names
        /\ original_stream = t.original_stream
        /\ oai_req = t.oai_req

HandleMessages ==
    /\ pc = "messages"
    /\ IF MessageGetRaises(req)
       THEN /\ pc' = "raised"
            /\ UNCHANGED <<req, current_tool_names, original_stream, oai_req>>
       ELSE LET t == Translate(req)
            IN  /\ req' = t.req
                /\ current_tool_names' = t.current_tool_names
                /\ original_stream' = t.original_stream
                /\ oai_req' = t.oai_req
                /\ pc' = Dispatch(t)
    /\ UNCHANGED <<body, path, backend, backend_calls, resp_lines, streamLocals,
                   responses, events, extractorVars, connectionVars,
                   threadVars>>

\* _handle_sync with a second urlopen after a failed one.
HandleSyncRetrying ==
    /\ pc = "call_sync"
    /\ \E b \in BackendBehaviours :
        /\ backend' = b
        /\ responses' = Append(responses,
              IF b.outcome = "ok"
              THEN SyncResponse(b.resp, current_tool_names, oai_req.model)
              ELSE FailureResponse(b.outcome))
        /\ backend_calls' = backend_calls + (IF b.outcome = "ok" THEN 1 ELSE 2)
    /\ pc' = "done"
    /\ UNCHANGED <<requestVars, resp_lines, streamLocals, events, extractorVars,
                   connectionVars, threadVars>>

\* _handle_sync: the call fails, or the body read is not JSON, or it is the
\* chat completion b.resp.
HandleSync ==
    /\ pc = "call_sync"
    /\ \E b \in BackendBehaviours :
        /\ backend' = b
        /\ responses' = Append(responses,
              IF b.outcome = "ok"
              THEN SyncResponse(b.resp, current_tool_names, oai_req.model)
              ELSE FailureResponse(b.outcome))
    /\ backend_calls' = backend_calls + 1
    /\ pc' = "done"
    /\ UNCHANGED <<requestVars, resp_lines, streamLocals, events, extractorVars, connectionVars,
                   threadVars>>

\* _handle_sync_as_sse: the same outcomes; the 200 head and the whole event
\* burst are written only after the response is processed.
HandleSyncAsSse ==
    /\ pc = "call_sse"
    /\ \E b \in BackendBehaviours :
        /\ backend' = b
        /\ IF b.outcome = "ok"
           THEN /\ responses' = Append(responses, SseHead)
                /\ events' = events \o SyncAsSseEvents(b.resp, current_tool_names)
           ELSE /\ responses' = Append(responses, FailureResponse(b.outcome))
                /\ events' = events
    /\ backend_calls' = backend_calls + 1
    /\ pc' = "done"
    /\ UNCHANGED <<requestVars, resp_lines, streamLocals, extractorVars, connectionVars,
                   threadVars>>

\* _handle_stream up to its read loop: urlopen fails, or the 200 head and
\* message_start are written.
HandleStream ==
    /\ pc = "call_stream"
    /\ \E outcome \in CallFailures \cup {"ok"} :
        /\ backend' = [outcome |-> outcome]
        /\ IF outcome = "ok"
           THEN /\ responses' = Append(responses, SseHead)
                /\ events' = events \o <<EvMessageStart(0)>>
                /\ pc' = "stream"
           ELSE /\ responses' = Append(responses, FailureResponse(outcome))
                /\ events' = events
                /\ pc' = "done"
    /\ backend_calls' = backend_calls + 1
    /\ in_reasoning' = FALSE
    /\ reasoning_started' = FALSE
    /\ content_started' = FALSE
    /\ content_index' = 0
    /\ total_output_tokens' = 0
    /\ UNCHANGED <<requestVars, resp_lines, extractorVars, connectionVars,
                   threadVars>>

\* The pure extractor applied to its arguments.
Extract ==
    /\ pc = "extract"
    /\ extracted' = ExtractToolCalls(text, known_tools)
    /\ pc' = "extracted"
    /\ UNCHANGED <<requestVars, backend, backend_calls, resp_lines,
                   streamLocals, responses, events, text, known_tools,
                   connectionVars, threadVars>>

----------------------------------------------------------------------------
(* Concurrent requests: ThreadedHTTPServer runs each connection's handler  *)
(* in a thread of its own, on a handler object of its own                  *)

Workers == {"w1", "w2"}

\* The objects that can hold a _current_tool_names attribute.
AttrHolders == {"class"} \cup Workers

\* The class body binds _current_tool_names = [] on the class; a handler
\* object has no attribute of its own until one is assigned.
ClassAttrs ==
    [h \in AttrHolders |->
        IF h = "class" THEN [bound |-> TRUE, value |-> <<>>]
        ELSE [bound |-> FALSE, value |-> <<>>]]

\* The assignment made on the class, whose attribute all handlers share.
SharedAttrOwner(w) == "class"

\* Where "self._current_tool_names = ..." binds the name: on the handler
\* object of the thread.
AttrOwner(w) == w

\* self._current_tool_names as an expression: the object's attribute if it
\* has one, the class attribute otherwise.
ReadToolNames(w) ==
    IF tool_names_attr[w].bound THEN tool_names_attr[w].value
    ELSE tool_names_attr["class"].value

\* The requests the concurrent handlers serve, and the number of blocks the
\* pseudo-stream of each writes.
ThreadRequests ==
    {[messages |-> <<UserMessage>>] @@ tl :
        tl \in OptKey("tools", {<<Tool("Bash")>>, <<Tool("Read"), Tool("Task")>>})}

MaxBlocks == 2

NewWorker(r, n) ==
    [pc |-> "start", req |-> r, blocks |-> n, request_names |-> <<>>,
     response_names |-> <<>>, block_index |-> 0, indices |-> <<>>]

\* The filter and the assignment of the tool names in _handle_messages.
AssignToolNames(w) ==
    /\ workers[w].pc = "start"
    /\ tool_names_attr' =
         [tool_names_attr EXCEPT
            ![AttrOwner(w)] = [bound |-> TRUE,
                               value |-> Translate(workers[w].req).current_tool_names]]
    /\ workers' = [workers EXCEPT ![w].pc = "assigned"]

\* The reads of the names while the backend request is built.
BuildRequest(w) ==
    /\ workers[w].pc = "assigned"
    /\ workers' = [workers EXCEPT ![w].pc = "called",
                                  ![w].request_names = ReadToolNames(w)]
    /\ UNCHANGED tool_names_attr

\* The read of the names in _process_ollama_response.
ProcessResponse(w) ==
    /\ workers[w].pc = "called"
    /\ workers' = [workers EXCEPT ![w].pc = "processed",
                                  ![w].response_names = ReadToolNames(w)]
    /\ UNCHANGED tool_names_attr

\* One block of _handle_sync_as_sse: block_index is a local of the call.
EmitBlock(w) ==
    /\ workers[w].pc = "processed"
    /\ workers[w].block_index < workers[w].blocks
    /\ workers' = [workers EXCEPT
                     ![w].indices = Append(@, workers[w].block_index),
                     ![w].block_index = @ + 1]
    /\ UNCHANGED tool_names_attr

FinishWorker(w) ==
    /\ workers[w].pc = "processed"
    /\ workers[w].block_index = workers[w].blocks
    /\ workers' = [workers EXCEPT ![w].pc = "done"]
    /\ UNCHANGED tool_names_attr

WorkerStep ==
    /\ \E w \in Workers :
        \/ AssignToolNames(w)
        \/ BuildRequest(w)
        \/ ProcessResponse(w)
        \/ EmitBlock(w)
        \/ FinishWorker(w)
    /\ UNCHANGED <<pc, requestVars, backend, backend_calls, resp_lines,
                   streamLocals, responses, events, extractorVars,
                   connectionVars>>

----------------------------------------------------------------------------
(* Specifications *)

NoBackend == [outcome |-> "none"]
NoResult == [tool_calls |-> <<>>, cleaned |-> <<>>, returned_at |-> 0]

NoStream ==
    /\ resp_lines = <<>>
    /\ in_reasoning = FALSE
    /\ reasoning_started = FALSE
    /\ content_started = FALSE
    /\ content_index = 0
    /\ total_output_tokens = 0

NoExtractor ==
    /\ text = <<>>
    /\ known_tools = <<>>
    /\ extracted = NoResult

\* The client is there and no write has failed.
NoDisconnect ==
    /\ client = "connected"
    /\ failed_responses = <<>>

\* No other handler thread runs.
NoThreads ==
    /\ tool_names_attr = ClassAttrs
    /\ workers = [w \in {} |-> 0]

\* The gateway: one POST, from its arrival to its response.
Init ==
    /\ pc = "recv"
    /\ body \in Bodies
    /\ path \in Paths
    /\ req = EmptyDict
    /\ current_tool_names = <<>>
    /\ original_stream = FALSE
    /\ oai_req = EmptyDict
    /\ backend = NoBackend
    /\ backend_calls = 0
    /\ NoStream
    /\ responses = <<>>
    /\ events = <<>>
    /\ NoExtractor
    /\ NoDisconnect
    /\ NoThreads

Next ==
    \/ DoPost
    \/ HandleMessages
    \/ HandleSync
    \/ HandleSyncAsSse
    \/ HandleStream
    \/ StreamLine
    \/ StreamEnd
    \/ StreamFail

Spec == Init /\ [][Next]_vars

\* The gateway with every handler running on: a handler thread that is
\* started runs until it returns or raises, and the backend call returns,
\* fails or times out (urlopen and every read have a timeout of 300 s).
SpecLive == Init /\ [][Next]_vars /\ WF_vars(Next)

\* The request translator on its own: _handle_messages entered with req.
InitReq ==
    /\ pc = "messages"
    /\ req \in TranslatorRequests
    /\ body = [kind |-> "json", value |-> req]
    /\ path = "/v1/messages"
    /\ current_tool_names = <<>>
    /\ original_stream = FALSE
    /\ oai_req = EmptyDict
    /\ backend = NoBackend
    /\ backend_calls = 0
    /\ NoStream
    /\ responses = <<>>
    /\ events = <<>>
    /\ NoExtractor
    /\ NoDisconnect
    /\ NoThreads

NextReq == HandleMessages

SpecReq == InitReq /\ [][NextReq]_vars

\* The translators of a complete backend response: the handler at the
\* backend call of _handle_sync or _handle_sync_as_sse.
InitSync ==
    /\ \E r \in SyncRequests :
        /\ body = [kind |-> "json", value |-> r]
        /\ Translated(r)
        /\ pc = Dispatch(Translate(r))
    /\ path = "/v1/messages"
    /\ backend = NoBackend
    /\ backend_calls = 0
    /\ NoStream
    /\ responses = <<>>
    /\ events = <<>>
    /\ NoExtractor
    /\ NoDisconnect
    /\ NoThreads

NextSync == HandleSync \/ HandleSyncAsSse

SpecSync == InitSync /\ [][NextSync]_vars

\* The true-stream translator: _handle_stream at its read loop, the backend
\* call made, the 200 head and message_start written.
InitStream ==
    /\ pc = "stream"
    /\ body = [kind |-> "json", value |-> StreamRequest]
    /\ path = "/v1/messages"
    /\ Translated(StreamRequest)
    /\ backend = [outcome |-> "ok"]
    /\ backend_calls = 1
    /\ NoStream
    /\ responses = <<SseHead>>
    /\ events = <<EvMessageStart(0)>>
    /\ NoExtractor
    /\ NoDisconnect
    /\ NoThreads

NextStream == StreamLine \/ StreamEnd \/ StreamFail

SpecStream == InitStream /\ [][NextStream]_vars

\* The extractor as a function of its arguments.
InitExtract ==
    /\ pc = "extract"
    /\ text \in Texts
    /\ known_tools \in KnownToolLists
    /\ extracted = NoResult
    /\ body = [kind |-> "none"]
    /\ path = ""
    /\ req = EmptyDict
    /\ current_tool_names = <<>>
    /\ original_stream = FALSE
    /\ oai_req = EmptyDict
    /\ backend = NoBackend
    /\ backend_calls = 0
    /\ NoStream
    /\ responses = <<>>
    /\ events = <<>>
    /\ NoDisconnect
    /\ NoThreads

NextExtract == Extract

SpecExtract == InitExtract /\ [][NextExtract]_vars

\* The true stream with a client that can go away while it is written.
NextCancel == StreamLine \/ StreamEnd \/ StreamFail \/ Disconnect

SpecCancel == InitStream /\ [][NextCancel]_vars

\* Two handler threads serving one request each, interleaved step by step.
InitThreads ==
    /\ pc = "serving"
    /\ body = [kind |-> "none"]
    /\ path = ""
    /\ req = EmptyDict
    /\ current_tool_names = <<>>
    /\ original_stream = FALSE
    /\ oai_req = EmptyDict
    /\ backend = NoBackend
    /\ backend_calls = 0
    /\ NoStream
    /\ responses = <<>>
    /\ events = <<>>
    /\ NoExtractor
    /\ NoDisconnect
    /\ tool_names_attr = ClassAttrs
    /\ workers \in [Workers -> {NewWorker(r, n) : r \in ThreadRequests,
                                                 n \in 1..MaxBlocks}]

NextThreads == WorkerStep

SpecThreads == InitThreads /\ [][NextThreads]_vars

----------------------------------------------------------------------------
(* Event-sequence predicates *)

IsStart(e) == e.type = "content_block_start"
IsDelta(e) == e.type = "content_block_delta"
IsStop(e) == e.type = "content_block_stop"
HasIndex(e) == IsStart(e) \/ IsDelta(e) \/ IsStop(e)

Positions(evs, P(_), i) ==
    {k \in 1..Len(evs) : HasIndex(evs[k]) /\ evs[k].index = i /\ P(evs[k])}

Indices(evs) == {evs[k].index : k \in {j \in 1..Len(evs) : HasIndex(evs[j])}}

\* Every index has exactly one start, before all its deltas, exactly one stop
\* after them, and its stop comes before the start of any higher index.
BlocksWellFormed(evs) ==
    \A i \in Indices(evs) :
        /\ Cardinality(Positions(evs, IsStart, i)) = 1
        /\ Cardinality(Positions(evs, IsStop, i)) = 1
        /\ \A s \in Positions(evs, IsStart, i), d \in Positions(evs, IsDelta, i),
              t \in Positions(evs, IsStop, i) : s < d /\ d < t /\ s < t
        /\ \A j \in Indices(evs) :
              j > i => \A t \in Positions(evs, IsStop, i),
                          s \in Positions(evs, IsStart, j) : t < s

----------------------------------------------------------------------------
(* Claims *)

\* C1: for every sequence of backend stream increments fed to _handle_stream,
\* once the stream has ended, every block index that appears in the emitted
\* events has exactly one content_block_start, the start precedes each of the
\* index's deltas, exactly one content_block_stop follows them, and the stop
\* of index i precedes the start of every index j > i.
C1_BlockIndexInvariant ==
    pc = "done" => BlocksWellFormed(events)

\* States of a POST /v1/messages whose JSON body has been translated.
PastTranslation ==
    /\ path = "/v1/messages"
    /\ body.kind = "json"
    /\ pc \in {"call_stream", "call_sse", "call_sync", "stream", "done"}

InboundTools == Get(body.value, "tools", <<>>)
AsksStream == Get(body.value, "stream", FALSE) = TRUE
HasAllowedTool ==
    \E i \in 1..Len(InboundTools) : InboundTools[i].name \in ALLOWED_TOOLS

\* An SSE event sequence from message_start to message_stop.
SseComplete(evs) ==
    /\ evs # <<>>
    /\ evs[1].type = "message_start"
    /\ evs[Len(evs)].type = "message_stop"

\* The backend answered with a chat completion.
BackendSucceeded == pc = "done" /\ backend.outcome = "ok"

SyncAnswered == BackendSucceeded /\ ~original_stream /\ Len(responses) = 1
BackendMessage == backend.resp.choices[1].message
BackendContent == Get(BackendMessage, "content", <<>>)
BackendReasoning == Get(BackendMessage, "reasoning", <<>>)
BackendCalls == Get(BackendMessage, "tool_calls", <<>>)
ResponseBlocks == responses[1].data.content
ToolUseBlocks == SelectSeq(ResponseBlocks, LAMBDA b : b.type = "tool_use")

\* C3: for a complete backend response with empty content and a structured
\* tool_calls list holding exactly one call whose arguments string is a
\* valid JSON object, whatever its finish_reason, the synchronous translator
\* returns exactly one tool_use block, with the call's name and input equal
\* to the parsed arguments, and the response's stop_reason is "tool_use".
C3_StructuredCallRoundTrip ==
    (/\ SyncAnswered
     /\ BackendContent = <<>>
     /\ Len(BackendCalls) = 1
     /\ JsonValid(BackendCalls[1].function.arguments))
    => /\ Len(ToolUseBlocks) = 1
       /\ ToolUseBlocks[1].name = BackendCalls[1].function.name
       /\ ToolUseBlocks[1].input = BackendCalls[1].function.arguments.value
       /\ responses[1].data.stop_reason = "tool_use"

\* C4: the synchronous translator never returns a response with zero content
\* blocks, and for a backend response with empty content, empty reasoning and
\* empty tool_calls the content is exactly one block, of type text, whose
\* text is the empty string.
C4_NeverZeroBlocks ==
    SyncAnswered
    => /\ Len(ResponseBlocks) >= 1
       /\ (BackendContent = <<>> /\ BackendReasoning = <<>> /\ BackendCalls = <<>>)
          => ResponseBlocks = <<[type |-> "text", text |-> <<>>]>>

\* C4 witness: an empty backend response was answered.
C4_Witness ==
    /\ SyncAnswered
    /\ BackendContent = <<>> /\ BackendReasoning = <<>> /\ BackendCalls = <<>>
    /\ Len(ResponseBlocks) = 1

\* States of the request translator after it built the backend request.
RequestBuilt == pc \in {"call_stream", "call_sse", "call_sync"}

\* C5: for every POST /v1/messages request with integer max_tokens = N, the
\* max_tokens of the backend request is N when N <= 4096 and 4096 otherwise;
\* the forwarded value never exceeds 4096.
C5_MaxTokensClamped ==
    RequestBuilt
    => /\ oai_req.max_tokens <= 4096
       /\ "max_tokens" \in DOMAIN body.value
          => oai_req.max_tokens = IF body.value.max_tokens <= 4096
                                  THEN body.value.max_tokens
                                  ELSE 4096

\* C5 witness: a request above the cap was forwarded with the cap.
C5_Witness ==
    /\ RequestBuilt
    /\ "max_tokens" \in DOMAIN body.value
    /\ body.value.max_tokens = 32000
    /\ oai_req.max_tokens = 4096


InboundSystem == Get(body.value, "system", StrContent(<<>>))
\* The system prompt's text after newline-joining its text blocks.
SystemJoined == SystemText(InboundSystem)
HasSystemMessage ==
    oai_req.messages # <<>> /\ oai_req.messages[1].role = "system"
ForwardedSystem == oai_req.messages[1].content
ForwardedAfter(n) == SubSeq(ForwardedSystem, n + 1, Len(ForwardedSystem))

\* What follows the system text: nothing when no tool is left after the
\* allow-list filter, else the function-calling directive.
DirectiveIs(rest) ==
    IF HasAllowedTool THEN rest # <<>> /\ rest[1] = FcHintHead ELSE rest = <<>>

\* C6 (as amended): for a system prompt whose text has length L > 4000, the
\* system text forwarded to the backend consists of the first 4000 characters
\* of the original followed by the fixed truncation suffix, and for
\* 0 < L <= 4000 of the whole original; when no tool is left after the
\* allow-list filter nothing follows (so the truncated text has length
\* 4000 + suffix length and ends in the suffix), otherwise the
\* function-calling directive follows.
C6_SystemTruncatedThenDirective ==
    (RequestBuilt /\ "system" \in DOMAIN body.value)
    => LET L == Len(SystemJoined)
       IN  /\ L > 4000
              => /\ HasSystemMessage
                 /\ Len(ForwardedSystem) >= 4000 + Len(TruncationSuffix)
                 /\ SubSeq(ForwardedSystem, 1, 4000) = SubSeq(SystemJoined, 1, 4000)
                 /\ SubSeq(ForwardedSystem, 4001, 4000 + Len(TruncationSuffix))
                    = TruncationSuffix
                 /\ DirectiveIs(ForwardedAfter(4000 + Len(TruncationSuffix)))
           /\ (L > 0 /\ L <= 4000)
              => /\ HasSystemMessage
                 /\ Len(ForwardedSystem) >= L
                 /\ SubSeq(ForwardedSystem, 1, L) = SystemJoined
                 /\ DirectiveIs(ForwardedAfter(L))

\* C6 (as claimed): for L > 4000 the forwarded system text has length
\* 4000 + suffix length, is the first 4000 characters of the original
\* followed by the suffix, and ends in the suffix; for L <= 4000 none of the
\* original is cut.
C6_SystemEndsInSuffix ==
    (RequestBuilt /\ "system" \in DOMAIN body.value)
    => LET L == Len(SystemJoined)
       IN  /\ L > 4000
              => /\ HasSystemMessage
                 /\ Len(ForwardedSystem) = 4000 + Len(TruncationSuffix)
                 /\ ForwardedSystem
                    = SubSeq(SystemJoined, 1, 4000) \o TruncationSuffix
           /\ (L > 0 /\ L <= 4000)
              => /\ HasSystemMessage
                 /\ Len(ForwardedSystem) >= L
                 /\ SubSeq(ForwardedSystem, 1, L) = SystemJoined

\* C6 witness: a system prompt over the cap was forwarded for a request with
\* an allowed tool, and the directive follows the suffix.
C6_Witness ==
    /\ RequestBuilt /\ "system" \in DOMAIN body.value
    /\ Len(SystemJoined) > 4000
    /\ HasAllowedTool
    /\ Len(ForwardedSystem) > 4000 + Len(TruncationSuffix)

\* Texts of invoke elements with parameter children: el the element as it
\* stands in the text, values its parameter names mapped to the values
\* between the parameter tags (a repeated name maps to its last value).
InvokeSamples ==
    {[el |-> InvokeElement("Bash", ParamChild("command", <<"x">>)),
      call |-> TRUE, name |-> "Bash",
      values |-> <<[k |-> "command", v |-> <<"x">>]>>],
     [el |-> InvokeElement("Bash", ParamChild("command", <<"\n", "x", " ">>)),
      call |-> TRUE, name |-> "Bash",
      values |-> <<[k |-> "command", v |-> <<"\n", "x", " ">>]>>],
     [el |-> InvokeElement("Bash", ParamChild("command", <<"x">>)
                                   \o ParamChild("command", <<"y">>)),
      call |-> TRUE, name |-> "Bash",
      values |-> <<[k |-> "command", v |-> <<"y">>]>>],
     [el |-> InvokeElement("Read", ParamChild("path", <<"x">>) \o <<" ">>
                                   \o ParamChild("command", <<>>)),
      call |-> TRUE, name |-> "Read",
      values |-> <<[k |-> "path", v |-> <<"x">>],
                   [k |-> "command", v |-> <<>>]>>]}

\* Plain text between the elements.
PlainSamples == {[el |-> <<"x">>, call |-> FALSE]}

SampleTexts == SeqsUpTo(InvokeSamples \cup PlainSamples, MaxPieces)
ElementsOf(es) == SelectSeq(es, LAMBDA e : e.call)
TextOf(es) == Concat(Map(es, LAMBDA e : e.el))

ExtractedNoRestriction == pc = "extracted" /\ known_tools = <<>>

\* The calls are one per invoke element, in text order, named as the element
\* and with arguments Value(v) for each parameter value v.
CallsMatch(calls, els, Value(_)) ==
    /\ Len(calls) = Len(els)
    /\ \A i \in 1..Len(els) :
        /\ calls[i].function.name = els[i].name
        /\ calls[i].function.arguments.value
           = Map(els[i].values, LAMBDA kv : [k |-> kv.k, v |-> Value(kv.v)])

\* C7 (as amended): with no known-tool-name restriction, the extractor
\* applied to a text of invoke elements wrapping parameter children returns
\* exactly one call per invoke element, in text order, each with the
\* element's name and arguments mapping its parameter names to their values
\* stripped of leading and trailing whitespace, and the cleaned text is empty
\* when the text held nothing but those elements.
C7_InvokeCallsWithStrippedValues ==
    ExtractedNoRestriction
    => \A es \in SampleTexts :
         (text = TextOf(es) /\ ElementsOf(es) # <<>>)
         => /\ CallsMatch(extracted.tool_calls, ElementsOf(es), Strip)
            /\ ElementsOf(es) = es => extracted.cleaned = <<>>

\* C7 (as claimed): the same with the arguments mapping the parameter names
\* to their values as they stand in the text.
C7_InvokeCallsWithValues ==
    ExtractedNoRestriction
    => \A es \in SampleTexts :
         (text = TextOf(es) /\ ElementsOf(es) # <<>>)
         => /\ CallsMatch(extracted.tool_calls, ElementsOf(es), LAMBDA v : v)
            /\ ElementsOf(es) = es => extracted.cleaned = <<>>

\* C7 witness: a text of two invoke elements, one with a whitespace-padded
\* value, was extracted into two calls and an empty cleaned text.
C7_Witness ==
    /\ ExtractedNoRestriction
    /\ text = InvokeElement("Bash", ParamChild("command", <<"\n", "x", " ">>))
              \o InvokeElement("Bash", ParamChild("command", <<"x">>))
    /\ Len(extracted.tool_calls) = 2
    /\ extracted.cleaned = <<>>

\* Bare-tag elements <ToolName><key>value</key></ToolName>.
BareSamples ==
    {[el |-> BareElement("Bash", KeyChild("command", <<"x">>)), name |-> "Bash"],
     [el |-> BareElement("Read", KeyChild("path", <<"x", " ">>)
                                 \o KeyChild("command", <<"y">>)),
      name |-> "Read"]}

KnownSet == {known_tools[i] : i \in 1..Len(known_tools)}
ByGrammar3 == extracted.returned_at = 153

\* C8: grammar 3 of the extractor returns a call only when its tool name is
\* a member of known_tool_names: a bare-tag element whose tag is in the known
\* set yields one call, the same element with a known set that lacks the tag
\* yields zero calls, and with no known set grammar 3 yields no call at all.
C8_Grammar3OnlyKnownNames ==
    pc = "extracted"
    => /\ ByGrammar3
          => \A i \in 1..Len(extracted.tool_calls) :
                extracted.tool_calls[i].function.name \in KnownSet
       /\ \A b \in BareSamples :
            text = b.el
            => IF b.name \in KnownSet
               THEN /\ ByGrammar3
                    /\ Len(extracted.tool_calls) = 1
                    /\ extracted.tool_calls[1].function.name = b.name
               ELSE extracted.tool_calls = <<>>
       /\ known_tools = <<>> => (ByGrammar3 => extracted.tool_calls = <<>>)

\* C8 witness: a bare-tag element whose tag is known was extracted by
\* grammar 3 into one call.
C8_Witness ==
    /\ pc = "extracted"
    /\ text = BareElement("Bash", KeyChild("command", <<"x">>))
    /\ known_tools = <<"Read", "Bash">>
    /\ ByGrammar3
    /\ Len(extracted.tool_calls) = 1


InboundMessages == Get(body.value, "messages", <<>>)
BlocksOf(m) == IF IsList(m.content) THEN m.content.blocks ELSE <<>>
ResultBlocks(m) ==
    SelectSeq(BlocksOf(m), LAMBDA b : IsDict(b) /\ b.type = "tool_result")
UseBlocks(m) ==
    SelectSeq(BlocksOf(m), LAMBDA b : IsDict(b) /\ b.type = "tool_use")

\* The tool_result blocks of the inbound messages, in order.
RECURSIVE AllResultBlocks(_)
AllResultBlocks(ms) ==
    IF ms = <<>> THEN <<>>
    ELSE ResultBlocks(Head(ms)) \o AllResultBlocks(Tail(ms))

ToolMessages == SelectSeq(oai_req.messages, LAMBDA m : m.role = "tool")

\* Backend messages an inbound message stands for: one per tool_result block
\* when it has any, else one.
BackendCount(m) == IF ResultBlocks(m) # <<>> THEN Len(ResultBlocks(m)) ELSE 1

\* Position in the backend request of the first message that stands for
\* inbound message i.
RECURSIVE BackendPosition(_)
BackendPosition(i) ==
    IF i = 1 THEN (IF HasSystemMessage THEN 2 ELSE 1)
    ELSE BackendPosition(i - 1) + BackendCount(InboundMessages[i - 1])

\* Inbound message i is an assistant message of tool_use blocks (and no
\* tool_result block) and message i + 1 holds tool_result blocks.
ResultsFollowUses(i) ==
    /\ i + 1 <= Len(InboundMessages)
    /\ InboundMessages[i].role = "assistant"
    /\ UseBlocks(InboundMessages[i]) # <<>>
    /\ ResultBlocks(InboundMessages[i]) = <<>>
    /\ ResultBlocks(InboundMessages[i + 1]) # <<>>

PostEnded == pc \in {"done", "raised"}

\* C10: a POST whose body is not parseable JSON (malformed JSON text, or
\* bytes that are no UTF-8 text) is answered with status 400, and no backend
\* request is built or sent for it.
C10_UnparseableBodyRejected ==
    (PostEnded /\ body.kind \in {"malformed", "not_utf8"})
    => /\ Len(responses) = 1
       /\ responses[1].status = 400
       /\ oai_req = EmptyDict
       /\ backend_calls = 0

\* An error response of the given status in the api_error envelope.
IsApiError(r, status) ==
    /\ r.status = status
    /\ r.ctype = "application/json"
    /\ r.data.type = "error"
    /\ r.data.error.type = "api_error"

LastResponse == responses[Len(responses)]

\* C11: for POST /v1/messages with a well-formed body, once the POST has been
\* handled, a connection-level failure of the backend call was answered with
\* a 502 api_error response, and any other failure while translating or
\* parsing the request or the backend response (a message that is not a
\* dict, a backend body or stream chunk that cannot be read as a completion)
\* was answered with a 500 api_error response.
C11_FailuresAnsweredByTaxonomy ==
    (PostEnded /\ path = "/v1/messages" /\ body.kind = "json")
    => /\ backend.outcome \in {"urlerror", "connect_timeout"}
          => (responses # <<>> /\ IsApiError(LastResponse, 502))
       /\ (backend.outcome \in {"badjson", "bad_chunk"}
           \/ MessageGetRaises(body.value))
          => (responses # <<>> /\ IsApiError(LastResponse, 500))

\* The pseudo-stream was written for a chat completion.
SseAnswered == BackendSucceeded /\ original_stream /\ responses = <<SseHead>>

\* The content blocks an SSE event sequence carries: one per
\* content_block_start, with the payload of the deltas of its index.
DeltasOf(evs, i) == SelectSeq(evs, LAMBDA e : IsDelta(e) /\ e.index = i)

RebuiltBlock(evs, s) ==
    LET ds == DeltasOf(evs, s.index)
    IN  IF s.block = "tool_use"
        THEN [type |-> "tool_use", name |-> s.name,
              input |-> IF Len(ds) = 1 /\ ds[1].delta = "input_json_delta"
                           /\ JsonValid(ds[1].payload)
                        THEN JsonLoads(ds[1].payload)
                        ELSE <<[k |-> "unreadable", v |-> <<>>]>>]
        ELSE IF s.block = "thinking"
        THEN [type |-> "thinking",
              thinking |-> Concat(Map(ds, LAMBDA d : d.payload))]
        ELSE [type |-> s.block, text |-> Concat(Map(ds, LAMBDA d : d.payload))]

RebuiltBlocks(evs) ==
    Map(SelectSeq(evs, IsStart), LAMBDA s : RebuiltBlock(evs, s))

\* A block of the synchronous response without its generated id.
WithoutId(b) ==
    IF b.type = "tool_use"
    THEN [type |-> "tool_use", name |-> b.name, input |-> b.input]
    ELSE b

\* The blocks the client received, on either path.
AnsweredBlocks ==
    IF original_stream THEN RebuiltBlocks(events)
    ELSE Map(ResponseBlocks, WithoutId)

AnsweredToolBlocks == SelectSeq(AnsweredBlocks, LAMBDA b : b.type = "tool_use")

HasInvalidArguments ==
    \E i \in 1..Len(BackendCalls) : ~JsonValid(BackendCalls[i].function.arguments)

\* C12: when a backend tool call's arguments are not valid JSON, the sync and
\* the pseudo-stream translators answer 200 all the same: every backend call
\* becomes a tool_use block in order, the invalid one with input
\* {"raw": <the arguments string>} and the others with their parsed
\* arguments, and the thinking and text blocks of the response are there as
\* for any other response.
C12_InvalidArgumentsKeptRaw ==
    (BackendSucceeded /\ Len(responses) = 1 /\ HasInvalidArguments)
    => /\ responses[1].status = 200
       /\ original_stream => SseComplete(events)
       /\ Len(AnsweredToolBlocks) = Len(BackendCalls)
       /\ \A i \in 1..Len(BackendCalls) :
            LET func == BackendCalls[i].function
            IN  /\ AnsweredToolBlocks[i].name = func.name
                /\ AnsweredToolBlocks[i].input =
                     IF JsonValid(func.arguments) THEN func.arguments.value
                     ELSE <<[k |-> "raw", v |-> func.arguments.value]>>
       /\ Len(AnsweredBlocks) =
            Len(BackendCalls) + (IF BackendReasoning # <<>> THEN 1 ELSE 0)
            + (IF BackendContent # <<>> THEN 1 ELSE 0)

\* C12 witness: the pseudo-stream of a response whose first call has invalid
\* arguments and whose second call has valid ones, after a text block.
C12_Witness ==
    /\ SseAnswered
    /\ BackendCalls = <<BadArgsCall, BashCall>>
    /\ BackendContent # <<>>
    /\ Len(AnsweredToolBlocks) = 2
    /\ AnsweredToolBlocks[1].input = <<[k |-> "raw", v |-> <<"{", "l", "s">>]>>
    /\ AnsweredToolBlocks[2].input = LsArgs

\* C13: when the client goes away in the middle of the true stream and the
\* backend stream itself does not fail, the failure of the following writes
\* is swallowed: no error response is produced or attempted for the request
\* and no exception leaves its handler.
C13_DisconnectSwallowed ==
    (client # "connected" /\ backend.outcome = "ok")
    => /\ failed_responses = <<>>
       /\ responses = <<SseHead>>
       /\ pc # "raised"

\* C14: for every POST /v1/messages at most one backend call is made,
\* whatever its outcome: once the call has an outcome (a completion, a
\* refused connection, a timeout, an unreadable response) exactly one call
\* was made, and no state of the request has seen a second one.
C14_AtMostOneBackendCall ==
    /\ backend_calls <= 1
    /\ backend.outcome # "none" => backend_calls = 1

\* C14 witness: a request whose backend call timed out has ended with one
\* call made.
C14_Witness ==
    /\ PostEnded
    /\ path = "/v1/messages"
    /\ backend.outcome = "read_timeout"
    /\ backend_calls = 1
    /\ IsApiError(LastResponse, 500)

\* C15: when the backend call of a POST /v1/messages times out, while
\* connecting or while the response or the stream is read, on any of the
\* three response paths, the client is answered with the 502 api_error
\* response.
C15_TimeoutsAnswered502 ==
    (PostEnded /\ path = "/v1/messages"
     /\ backend.outcome \in {"connect_timeout", "read_timeout"})
    => (responses # <<>> /\ IsApiError(LastResponse, 502))

\* The filtered tool names of the request a handler thread serves.
OwnToolNames(w) == Translate(workers[w].req).current_tool_names

\* C16: under every interleaving of two concurrently handled requests, the
\* tool names a handler reads while it builds the backend request (the
\* function-calling directive) and while it processes the backend response
\* (the salvage extraction) are the filtered tool names of its own request,
\* and the block indices it writes count its own blocks from 0.
C16_ToolNamesRequestLocal ==
    \A w \in DOMAIN workers :
        /\ workers[w].pc \in {"called", "processed", "done"}
           => workers[w].request_names = OwnToolNames(w)
        /\ workers[w].pc \in {"processed", "done"}
           => workers[w].response_names = OwnToolNames(w)
        /\ workers[w].indices = [i \in 1..workers[w].block_index |-> i - 1]

\* C16 witness: two handlers with different tool lists have both run to
\* their end, each having assigned and read its tool names and written its
\* blocks.
C16_Witness ==
    /\ DOMAIN workers = Workers
    /\ \A w \in Workers : workers[w].pc = "done" /\ tool_names_attr[w].bound
    /\ workers["w1"].response_names = <<"Bash">>
    /\ workers["w2"].response_names = <<"Read">>
    /\ workers["w1"].indices = <<0, 1>>
    /\ workers["w2"].indices = <<0>>

\* The number of content blocks an event sequence starts.
StartCount(evs) == Len(SelectSeq(evs, IsStart))

\* The three events of block i of a burst whose blocks take three events each.
BlockStartAt(evs, i) == evs[3 * i + 2]
BlockDeltaAt(evs, i) == evs[3 * i + 3]
BlockStopAt(evs, i) == evs[3 * i + 4]

DeltaTypeOf(btype) ==
    IF btype = "thinking" THEN "thinking_delta"
    ELSE IF btype = "tool_use" THEN "input_json_delta"
    ELSE "text_delta"

\* Whether _process_ollama_response left the backend's content as it was.
ContentUntouched == BackendCalls # <<>> \/ current_tool_names = <<>>

\* C17: for every backend response, the pseudo-stream translator emits one
\* message_start (empty content, output_tokens 0), then for each block, with
\* indices 0, 1, 2, ... in order, content_block_start, exactly one
\* content_block_delta carrying the block's entire payload (input_json_delta
\* with the complete JSON arguments for a tool_use block) and
\* content_block_stop, then one message_delta with the stop_reason and the
\* usage, then message_stop as the last event.
C17_PseudoStreamEventOrder ==
    SseAnswered
    => LET n == StartCount(events)
       IN  /\ n >= 1
           /\ Len(events) = 3 * n + 3
           /\ events[1].type = "message_start"
           /\ events[1].content = <<>> /\ events[1].output_tokens = 0
           /\ \A i \in 0..(n - 1) :
                /\ IsStart(BlockStartAt(events, i))
                /\ IsDelta(BlockDeltaAt(events, i))
                /\ IsStop(BlockStopAt(events, i))
                /\ BlockStartAt(events, i).index = i
                /\ BlockDeltaAt(events, i).index = i
                /\ BlockStopAt(events, i).index = i
                /\ BlockDeltaAt(events, i).delta
                   = DeltaTypeOf(BlockStartAt(events, i).block)
                /\ BlockStartAt(events, i).block = "thinking"
                   => BlockDeltaAt(events, i).payload = BackendReasoning
                /\ (BlockStartAt(events, i).block = "text" /\ ContentUntouched
                    /\ BackendContent # <<>>)
                   => BlockDeltaAt(events, i).payload = BackendContent
                /\ BlockStartAt(events, i).block = "tool_use"
                   => /\ JsonValid(BlockDeltaAt(events, i).payload)
                      /\ BackendCalls # <<>>
                         => LET k == i - (n - Len(BackendCalls)) + 1
                            IN  /\ k \in 1..Len(BackendCalls)
                                /\ BlockDeltaAt(events, i).payload
                                   = JsonDumps(ToolInput(BackendCalls[k].function))
           /\ events[3 * n + 2].type = "message_delta"
           /\ events[3 * n + 2].stop_reason \in {"end_turn", "tool_use", "length"}
           /\ events[3 * n + 2].output_tokens
              = backend.resp.usage.completion_tokens
           /\ events[3 * n + 3] = EvMessageStop

\* C17 witness: the pseudo-stream of a response with reasoning, text and two
\* structured calls: four blocks in fifteen events.
C17_Witness ==
    /\ SseAnswered
    /\ BackendReasoning # <<>> /\ BackendContent # <<>>
    /\ Len(BackendCalls) = 2
    /\ StartCount(events) = 4
    /\ Len(events) = 15
    /\ BlockDeltaAt(events, 3).delta = "input_json_delta"

\* The request was given to _handle_stream and the backend stream was opened.
StreamEntered == PastTranslation /\ (pc = "stream" \/ resp_lines # <<>>)

NoToolUseEvent ==
    \A k \in 1..Len(events) : IsStart(events[k]) => events[k].block # "tool_use"

StreamEnded ==
    /\ pc = "done"
    /\ resp_lines # <<>>
    /\ resp_lines[Len(resp_lines)].kind \in {"done", "eof"}

\* C19: for every backend stream that ends, by the terminal marker or by end
\* of input without it, the true-stream translator has opened at least one
\* content block (a content_block_start was written, for the fallback block
\* when no reasoning or text delta ever arrived), every block it opened is
\* closed, and its last two events are message_delta with stop_reason
\* "end_turn" and message_stop.
C19_StreamEndOpensAndCloses ==
    StreamEnded
    => /\ StartCount(events) >= 1
       /\ \A k \in 1..Len(events) :
            IsStart(events[k])
            => \E j \in (k + 1)..Len(events) :
                 IsStop(events[j]) /\ events[j].index = events[k].index
       /\ Len(events) >= 2
       /\ events[Len(events) - 1].type = "message_delta"
       /\ events[Len(events) - 1].stop_reason = "end_turn"
       /\ events[Len(events)] = EvMessageStop

\* What _handle_sync answers to the completion the pseudo-stream was written
\* for.
SyncCounterpart ==
    SyncResponse(backend.resp, current_tool_names, oai_req.model).data

\* C20: for every complete backend response, the sequence of (block type,
\* payload) rebuilt from the pseudo-stream's content_block_start and delta
\* events equals the synchronous response's content block sequence (same
\* types, same text and thinking payloads, same tool names and inputs, same
\* order), and the stop_reason of message_delta equals the synchronous
\* stop_reason.
C20_PseudoStreamAgreesWithSync ==
    SseAnswered
    => /\ RebuiltBlocks(events) = Map(SyncCounterpart.content, WithoutId)
       /\ events[Len(events) - 1].stop_reason = SyncCounterpart.stop_reason

\* The two translators agree on every response that yields some block.
C20_AgreeUnlessEmpty ==
    (SseAnswered
     /\ ~(BackendContent = <<>> /\ BackendReasoning = <<>> /\ BackendCalls = <<>>))
    => /\ RebuiltBlocks(events) = Map(SyncCounterpart.content, WithoutId)
       /\ events[Len(events) - 1].stop_reason = SyncCounterpart.stop_reason

\* C21: for every POST /v1/messages that reaches the backend call, the
\* response translator about to run is the true stream iff the client asked
\* stream=true and no tool remains after the allow-list filter, the
\* pseudo-stream iff it asked stream=true and a tool remains, the synchronous
\* one iff it did not ask for a stream; the backend request's stream flag is
\* true exactly when the true stream is selected; and once the backend has
\* answered, the response written is the one of that translator alone.
C21_TranslatorSelection ==
    /\ (PastTranslation /\ RequestBuilt)
       => /\ pc = "call_stream" <=> (AsksStream /\ ~HasAllowedTool)
          /\ pc = "call_sse" <=> (AsksStream /\ HasAllowedTool)
          /\ pc = "call_sync" <=> ~AsksStream
          /\ oai_req.stream = TRUE <=> pc = "call_stream"
    /\ (PastTranslation /\ BackendSucceeded)
       => /\ backend_calls = 1
          /\ Len(responses) = 1
          /\ responses[1] = SseHead <=> AsksStream
          /\ events # <<>> <=> AsksStream
          /\ resp_lines # <<>> <=> (AsksStream /\ ~HasAllowedTool)

\* C21 witness: a streaming request whose only tool is filtered out stands
\* before the true-stream call.
C21_Witness ==
    /\ PastTranslation
    /\ pc = "call_stream"
    /\ AsksStream
    /\ InboundTools # <<>>
    /\ ~HasAllowedTool
    /\ oai_req.stream = TRUE

\* Complete elements of the three markup styles, each with one parameter,
\* and plain text between them.
StyleSamples ==
    {[el |-> InvokeElement("Bash", ParamChild("command", <<"x">>)),
      grammar |-> 1, name |-> "Bash"],
     [el |-> FunctionElement("Bash", QwenParamChild("command", <<"x">>)),
      grammar |-> 2, name |-> "Bash"],
     [el |-> FunctionElement("Read", QwenParamChild("path", <<" ", "y">>)),
      grammar |-> 2, name |-> "Read"],
     [el |-> BareElement("Bash", KeyChild("command", <<"x">>)),
      grammar |-> 3, name |-> "Bash"],
     [el |-> BareElement("Read", KeyChild("path", <<"x", " ">>)
                                 \o KeyChild("command", <<"y">>)),
      grammar |-> 3, name |-> "Read"],
     [el |-> <<"x">>, grammar |-> 0, name |-> ""]}

StyleTexts == SeqsUpTo(StyleSamples, MaxPieces)

\* The elements of es a grammar (1, 2 or 3) can turn into calls.
ElementsOfGrammar(es, g) ==
    SelectSeq(es, LAMBDA e : g # 0 /\ e.grammar = g
                             /\ (g = 3 => e.name \in KnownSet))

\* The first grammar, in the order 1, 2, 3, that has an element in es.
FirstGrammar(es) ==
    IF ElementsOfGrammar(es, 1) # <<>> THEN 1
    ELSE IF ElementsOfGrammar(es, 2) # <<>> THEN 2
    ELSE IF ElementsOfGrammar(es, 3) # <<>> THEN 3
    ELSE 0

\* The calls one grammar alone finds in the original text.
GrammarCalls(g) ==
    CASE g = 1 -> GrammarLoop(text, FindIter(text, 1, InvokePat),
                              [tool_calls |-> <<>>, remaining |-> text],
                              InvokePat, ParamPat, FALSE).tool_calls
      [] g = 2 -> GrammarLoop(text, FindIter(text, 1, QwenFuncPat),
                              [tool_calls |-> <<>>, remaining |-> text],
                              QwenFuncPat, QwenParamPat, TRUE).tool_calls
      [] g = 3 -> IF known_tools = <<>> THEN <<>>
                  ELSE GrammarLoop(text, FindIter(text, 1, SimplePat(KnownSet)),
                                   [tool_calls |-> <<>>, remaining |-> text],
                                   SimplePat(KnownSet), InnerPat, TRUE).tool_calls

\* C22: the extractor tries the grammars in the order 1, 2, 3 against the
\* original text and returns as soon as one yields a call: the calls of a
\* result are those of one single grammar, the first in that order that
\* yields any, and for a text that mixes elements of several styles the
\* calls are one per element of the first style present, in text order, the
\* elements of the later styles yielding none.
C22_FirstGrammarOnly ==
    pc = "extracted"
    => /\ extracted.tool_calls =
            IF GrammarCalls(1) # <<>> THEN GrammarCalls(1)
            ELSE IF GrammarCalls(2) # <<>> THEN GrammarCalls(2)
            ELSE GrammarCalls(3)
       /\ GrammarCalls(1) # <<>> => extracted.returned_at = 94
       /\ (GrammarCalls(1) = <<>> /\ GrammarCalls(2) # <<>>)
          => extracted.returned_at = 127
       /\ \A es \in StyleTexts :
            text = TextOf(es)
            => LET won == ElementsOfGrammar(es, FirstGrammar(es))
               IN  /\ Len(extracted.tool_calls) = Len(won)
                   /\ \A i \in 1..Len(won) :
                        extracted.tool_calls[i].function.name = won[i].name

\* C22 witness: a text holding a <function=Read> element followed by an
\* invoke element for Bash was extracted into the single call of the invoke
\* element.
C22_Witness ==
    /\ pc = "extracted"
    /\ text = FunctionElement("Read", QwenParamChild("path", <<" ", "y">>))
              \o InvokeElement("Bash", ParamChild("command", <<"x">>))
    /\ known_tools = <<"Read", "Bash">>
    /\ Len(extracted.tool_calls) = 1
    /\ extracted.tool_calls[1].function.name = "Bash"
    /\ extracted.returned_at = 94

\* The matches of the grammar the result came from that produced its calls.
HasParams(m, ppat) == ParseParams(SubSeq(text, m.s + 1, m.e - 1), ppat) # <<>>

CallSpans ==
    CASE extracted.returned_at = 94 -> FindIter(text, 1, InvokePat)
      [] extracted.returned_at = 127 ->
            SelectSeq(FindIter(text, 1, QwenFuncPat),
                      LAMBDA m : HasParams(m, QwenParamPat))
      [] OTHER ->
            SelectSeq(FindIter(text, 1, SimplePat(KnownSet)),
                      LAMBDA m : HasParams(m, InnerPat))

InSpan(i) == \E k \in 1..Len(CallSpans) : CallSpans[k].s <= i /\ i <= CallSpans[k].e

\* The text outside the spans, from position i on.
RECURSIVE OutsideSpans(_)
OutsideSpans(i) ==
    IF i > Len(text) THEN <<>>
    ELSE (IF InSpan(i) THEN <<>> ELSE <<text[i]>>) \o OutsideSpans(i + 1)

\* A text without wrapper tags and surrounding whitespace.
WithoutWrappers(s) == Strip(StripWrappers(s, WrapperNames))

SpanHoldsWrapper ==
    \E k \in 1..Len(CallSpans) :
        \E i \in CallSpans[k].s..CallSpans[k].e :
            \E n \in WrapperNames \cup OtherNames :
                text[i] \in {TagOpen(n), TagClose(n)}

\* C23: for every call the extractor returns, under any of the three
\* grammars, the markup span that produced the call is absent from the
\* cleaned text: apart from wrapper tags and surrounding whitespace, the
\* cleaned text is the text outside the spans of the calls, also when a span
\* holds a wrapper tag or occurs more than once.
C23_CallSpansRemoved ==
    (pc = "extracted" /\ extracted.tool_calls # <<>>)
    => /\ Len(CallSpans) = Len(extracted.tool_calls)
       /\ WithoutWrappers(extracted.cleaned) = WithoutWrappers(OutsideSpans(1))

\* The spans are removed whenever none of them holds a wrapper tag.
C23_SpansWithoutWrappersRemoved ==
    (pc = "extracted" /\ extracted.tool_calls # <<>> /\ ~SpanHoldsWrapper)
    => /\ Len(CallSpans) = Len(extracted.tool_calls)
       /\ WithoutWrappers(extracted.cleaned) = WithoutWrappers(OutsideSpans(1))

\* The tags <name> and </name> of the names.
TagsOf(names) == {TagOpen(n) : n \in names} \cup {TagClose(n) : n \in names}

WithoutTags(s, names) == SelectSeq(s, LAMBDA a : a \notin TagsOf(names))

\* C24: when no grammar yields a call, the extractor returns an empty call
\* list and the input with the wrapper tags function_calls, action and
\* tool_call removed and nothing else, stripped of surrounding whitespace;
\* for an input with no wrapper tag the cleaned text is the input stripped
\* of surrounding whitespace, with or without known tool names.
C24_NoCallOnlyWrappersRemoved ==
    (pc = "extracted" /\ extracted.tool_calls = <<>>)
    => /\ extracted.cleaned = Strip(WithoutTags(text, WrapperNames))
       /\ WithoutTags(text, WrapperNames) = text
          => extracted.cleaned = Strip(text)

\* The same, counting the tags whose name starts with a wrapper's name among
\* those removed.
C24_NoCallPrefixedTagsRemoved ==
    (pc = "extracted" /\ extracted.tool_calls = <<>>)
    => extracted.cleaned = Strip(WithoutTags(text, WrapperNames \cup OtherNames))

\* A chat completion was answered on the sync or the pseudo-stream path.
CompletionAnswered == BackendSucceeded /\ Len(responses) = 1 /\ resp_lines = <<>>

AnsweredStopReason ==
    IF original_stream THEN events[Len(events) - 1].stop_reason
    ELSE responses[1].data.stop_reason

AnsweredTextBlocks == SelectSeq(AnsweredBlocks, LAMBDA b : b.type = "text")

BackendFinish == Get(backend.resp.choices[1], "finish_reason", "end_turn")

\* The three conditions under which the salvage extractor is to run, and
\* what it returns for the backend's content.
SalvageDue ==
    BackendCalls = <<>> /\ BackendContent # <<>> /\ current_tool_names # <<>>

SalvageResult == ExtractToolCalls(BackendContent, current_tool_names)

Salvaged == SalvageDue /\ SalvageResult.tool_calls # <<>>

\* The content, tool calls and finish_reason the blocks are to be built from.
DueContent == IF Salvaged THEN SalvageResult.cleaned ELSE BackendContent
DueCalls == IF Salvaged THEN SalvageResult.tool_calls ELSE BackendCalls
DueFinish == IF Salvaged THEN "tool_calls" ELSE BackendFinish

\* C25: the sync and pseudo-stream translators use the salvage extractor if
\* and only if the backend's tool_calls list is empty, its content is
\* non-empty and the request has known tool names; when it returns a call,
\* the answer's tool_use blocks and text are its calls and its cleaned text
\* and the stop_reason is "tool_use"; in every other case the answer is
\* built from the backend's own content, tool_calls and finish_reason.
C25_SalvageOnlyWhenDue ==
    CompletionAnswered
    => /\ Len(AnsweredToolBlocks) = Len(DueCalls)
       /\ \A i \in 1..Len(DueCalls) :
            /\ AnsweredToolBlocks[i].name = DueCalls[i].function.name
            /\ AnsweredToolBlocks[i].input = ToolInput(DueCalls[i].function)
       /\ DueContent # <<>>
          => AnsweredTextBlocks = <<[type |-> "text", text |-> DueContent]>>
       /\ (DueContent = <<>> /\ (DueCalls # <<>> \/ BackendReasoning # <<>>))
          => AnsweredTextBlocks = <<>>
       /\ Salvaged => AnsweredStopReason = "tool_use"
       /\ ~Salvaged
          => AnsweredStopReason =
               (IF BackendFinish = "tool_calls" THEN "tool_use"
                ELSE IF BackendFinish = "stop" THEN "end_turn"
                ELSE BackendFinish)

\* C25 witness: markup after a line of text, with no structured call, was
\* salvaged into a tool_use block and the text before it.
C25_Witness ==
    /\ CompletionAnswered
    /\ Salvaged
    /\ BackendContent = <<"o", "k", "\n">> \o InvokeLs
    /\ BackendFinish = "stop"
    /\ Len(AnsweredToolBlocks) = 1
    /\ AnsweredTextBlocks = <<[type |-> "text", text |-> <<"o", "k">>]>>
    /\ AnsweredStopReason = "tool_use"

\* n copies of x
Repeat(x, n) == [i \in 1..n |-> x]

\* The block types the synchronous response is to hold, in order.
DueBlockTypes ==
    (IF BackendReasoning # <<>> THEN <<"thinking">> ELSE <<>>)
    \o (IF DueContent # <<>> THEN <<"text">> ELSE <<>>)
    \o Repeat("tool_use", Len(DueCalls))

\* C26: for every backend response, the synchronous response's content
\* blocks are, in this order, one thinking block iff the reasoning is
\* non-empty, one text block iff the content (after salvage) is non-empty,
\* and one tool_use block per tool call in the backend's call order; the
\* block count is that sum, or 1 when the sum is 0.
C26_SyncBlockOrder ==
    SyncAnswered
    => IF DueBlockTypes = <<>>
       THEN Len(ResponseBlocks) = 1
       ELSE /\ Len(ResponseBlocks) = Len(DueBlockTypes)
            /\ \A i \in 1..Len(DueBlockTypes) :
                 ResponseBlocks[i].type = DueBlockTypes[i]
            /\ BackendReasoning # <<>>
               => ResponseBlocks[1].thinking = BackendReasoning
            /\ \A k \in 1..Len(DueCalls) :
                 ResponseBlocks[Len(DueBlockTypes) - Len(DueCalls) + k].name
                 = DueCalls[k].function.name

\* C26 witness: a completion with reasoning, content and two structured
\* calls was answered with four blocks.
C26_Witness ==
    /\ SyncAnswered
    /\ BackendReasoning # <<>> /\ BackendContent # <<>>
    /\ BackendCalls = <<ReadCall, BashCall>>
    /\ Len(ResponseBlocks) = 4
    /\ ResponseBlocks[1].type = "thinking"
    /\ ResponseBlocks[2].type = "text"
    /\ ResponseBlocks[3].name = "Read"
    /\ ResponseBlocks[4].name = "Bash"

\* C27: on the sync and pseudo-stream paths the stop_reason is a function
\* of the finish_reason after salvage alone: "tool_calls" gives "tool_use",
\* "stop" gives "end_turn" and every other value is passed through.
C27_StopReasonMapping ==
    CompletionAnswered
    => /\ DueFinish = "tool_calls" => AnsweredStopReason = "tool_use"
       /\ DueFinish = "stop" => AnsweredStopReason = "end_turn"
       /\ DueFinish \notin {"tool_calls", "stop"}
          => AnsweredStopReason = DueFinish

\* C27 witness: a completion that ended with "length" was answered on the
\* pseudo-stream path with stop_reason "length".
C27_Witness ==
    /\ CompletionAnswered
    /\ original_stream
    /\ BackendFinish = "length"
    /\ ~Salvaged
    /\ AnsweredStopReason = "length"

RECURSIVE IsSubseq(_, _)
\* a is b with some elements left out.
IsSubseq(a, b) ==
    IF a = <<>> THEN TRUE
    ELSE IF b = <<>> THEN FALSE
    ELSE IF Head(a) = Head(b) THEN IsSubseq(Tail(a), Tail(b))
    ELSE IsSubseq(a, Tail(b))

NameOf(t) == Get(t, "name", "")
InboundNames == Map(InboundTools, NameOf)
AllowedInboundNames == SelectSeq(InboundNames, LAMBDA n : n \in ALLOWED_TOOLS)

\* The backend request's tools list and the names in it.
BackendTools == Get(oai_req, "tools", <<>>)
BackendToolNames == Map(BackendTools, LAMBDA t : t.function.name)

\* Whether the forwarded system text holds the directive, and the tool
\* names the directive lists.
HasDirective ==
    HasSystemMessage
    /\ \E i \in 1..Len(ForwardedSystem) : ForwardedSystem[i] = FcHintHead
DirectiveStart ==
    CHOOSE i \in 1..Len(ForwardedSystem) : ForwardedSystem[i] = FcHintHead
DirectiveNames ==
    SelectSeq(SubSeq(ForwardedSystem, DirectiveStart + 1,
                     Len(ForwardedSystem) - 1),
              LAMBDA a : a # ", ")

\* C28: the allow-list filter comes before every use of the tools: every
\* tool name captured for the extractor, every tool name in the
\* function-calling directive and every tool of the backend request's tools
\* list is on the allow-list, and the surviving tools keep the relative
\* order they have in the inbound request.
C28_FilterBeforeUse ==
    RequestBuilt
    => /\ current_tool_names = AllowedInboundNames
       /\ \A i \in 1..Len(BackendToolNames) :
            BackendToolNames[i] \in ALLOWED_TOOLS
       /\ IsSubseq(BackendToolNames, InboundNames)
       /\ HasDirective
          => /\ \A i \in 1..Len(DirectiveNames) :
                  DirectiveNames[i] \in ALLOWED_TOOLS
             /\ IsSubseq(DirectiveNames, InboundNames)

\* C28 witness: of the tools Read, Task, Bash of a request with a system
\* prompt, Read and Bash were captured, named in the directive and
\* forwarded, in that order.
C28_Witness ==
    /\ RequestBuilt
    /\ InboundNames = <<"Read", "Task", "Bash">>
    /\ current_tool_names = <<"Read", "Bash">>
    /\ HasDirective
    /\ DirectiveNames = <<"Read", "Bash">>
    /\ BackendToolNames = <<"Read", "Bash">>

\* The inbound tools that survive the allow-list filter, and those of them
\* whose type is "custom", empty or absent.
SurvivingTools ==
    SelectSeq(InboundTools, LAMBDA t : NameOf(t) \in ALLOWED_TOOLS)
FunctionTools ==
    SelectSeq(SurvivingTools,
              LAMBDA t : "type" \notin DOMAIN t \/ t.type \in {"custom", ""})

\* The backend request's entry for a tool.
BackendEntry(t) ==
    [type |-> "function",
     function |-> [name |-> t.name, description |-> t.description,
                   parameters |-> t.input_schema]]

\* tool_choice is "auto" iff the request carries a non-empty tools list, and
\* the list holds one entry per surviving tool of a forwarded type.
ToolsListAsClaimed ==
    /\ ("tool_choice" \in DOMAIN oai_req) = (BackendTools # <<>>)
    /\ "tool_choice" \in DOMAIN oai_req => oai_req.tool_choice = "auto"
    /\ Len(BackendTools) = Len(FunctionTools)
    /\ \A i \in 1..Len(FunctionTools) :
         BackendTools[i] = BackendEntry(FunctionTools[i])

\* C29 (as amended): the backend request carries tool_choice = "auto" if
\* and only if it carries a non-empty tools list; the list holds one entry
\* {name, description, parameters: input schema} for each tool that survived
\* the filter and has type "custom", an empty type or no type; tool_choice =
\* "auto" is set whenever such a tool exists, and neither key is sent when
\* every surviving tool has another type.
C29_ToolChoiceWithForwardedTools ==
    RequestBuilt
    => /\ ToolsListAsClaimed
       /\ ("tool_choice" \in DOMAIN oai_req) = (FunctionTools # <<>>)
       /\ ("tools" \in DOMAIN oai_req) = (FunctionTools # <<>>)

\* C29 (as claimed): the same, with tool_choice = "auto" set whenever any
\* tool survives the filter.
C29_ToolChoiceWheneverToolSurvives ==
    RequestBuilt
    => /\ ToolsListAsClaimed
       /\ SurvivingTools # <<>>
          => ("tool_choice" \in DOMAIN oai_req /\ oai_req.tool_choice = "auto")

\* C29 witness: of four tools, the one off the allow-list and the one of
\* another type were left out, and the two others were forwarded with
\* tool_choice = "auto".
C29_Witness ==
    /\ RequestBuilt
    /\ Len(InboundTools) = 4
    /\ Len(SurvivingTools) = 3
    /\ BackendToolNames = <<"Read", "Grep">>
    /\ oai_req.tool_choice = "auto"

\* The directive for the tools left after the filter: its head, the first
\* min(15, n) of the n names separated by ", ", and its tail.
NamedCount == IF Len(AllowedInboundNames) < 15 THEN Len(AllowedInboundNames) ELSE 15
DueDirective ==
    <<FcHintHead>>
    \o [i \in 1..(2 * NamedCount - 1) |->
          IF i % 2 = 1 THEN AllowedInboundNames[(i + 1) \div 2] ELSE ", "]
    \o <<FcHintTail>>

\* The system text as it is forwarded when no directive follows it.
DueSystemText ==
    IF Len(SystemJoined) > 4000
    THEN SubSeq(SystemJoined, 1, 4000) \o TruncationSuffix
    ELSE SystemJoined

\* The backend request has a system message made of the (truncated) system
\* text followed by the whole directive.
SystemEndsWithDirective ==
    /\ HasSystemMessage
    /\ ForwardedSystem = DueSystemText \o DueDirective

\* The request has a system prompt: a non-empty str or a non-empty list.
SystemGiven ==
    IF IsList(InboundSystem) THEN InboundSystem.blocks # <<>>
    ELSE InboundSystem.text # <<>>

\* C30: for every request in which at least one tool remains after the
\* filter, the backend request contains a system message that ends with the
\* function-calling directive; the directive names the first min(15, n) of
\* the n remaining tools and is appended after the truncation, so that it
\* is never truncated itself.
C30_DirectiveWheneverToolsRemain ==
    (RequestBuilt /\ SurvivingTools # <<>>) => SystemEndsWithDirective

\* The same for the requests that have a system prompt.
C30_DirectiveAfterSystemPrompt ==
    (RequestBuilt /\ SurvivingTools # <<>> /\ SystemGiven)
    => SystemEndsWithDirective

\* A request with sixteen remaining tools and a system prompt over the cap
\* was forwarded with the directive naming fifteen of them.
C30_DirectiveNamesFifteen ==
    /\ RequestBuilt
    /\ Len(SurvivingTools) = 16
    /\ Len(SystemJoined) > 4000
    /\ SystemEndsWithDirective
    /\ Len(DirectiveNames) = 15

\* The backend messages that stand for inbound message i.
BackendOf(i) ==
    SubSeq(oai_req.messages, BackendPosition(i), BackendPosition(i + 1) - 1)

\* The backend tool message of a tool_result block.
ToolMessageFor(b) ==
    [role |-> "tool", tool_call_id |-> b.tool_use_id,
     content |-> ToolResultText(b.content)]

\* The blocks of a message other than its tool_result blocks.
OtherBlocks(m) ==
    IF IsList(m.content)
    THEN SelectSeq(m.content.blocks, LAMBDA b : BlockType(b) # "tool_result")
    ELSE <<>>

\* C31: an inbound message whose content sequence holds at least one
\* tool_result block is translated into exactly its tool messages, one per
\* tool_result block in block order, and nothing else: its text and
\* tool_use blocks produce no backend message and no tool_calls.
C31_ToolResultsShortCircuit ==
    RequestBuilt
    => /\ Len(oai_req.messages) = BackendPosition(Len(InboundMessages) + 1) - 1
       /\ \A i \in 1..Len(InboundMessages) :
            ResultBlocks(InboundMessages[i]) # <<>>
            => BackendOf(i) = Map(ResultBlocks(InboundMessages[i]), ToolMessageFor)

\* C31 witness: a message of a tool_use block and a tool_result block was
\* translated into one tool message, and so was a message of a tool_result
\* block and a text block.
C31_Witness ==
    /\ RequestBuilt
    /\ Len(InboundMessages) = 2
    /\ \A i \in 1..2 :
         /\ Len(ResultBlocks(InboundMessages[i])) = 1
         /\ OtherBlocks(InboundMessages[i]) # <<>>
    /\ UseBlocks(InboundMessages[1]) # <<>>
    /\ UseBlocks(InboundMessages[2]) = <<>>
    /\ Len(oai_req.messages) = 2
    /\ \A k \in 1..2 : oai_req.messages[k].role = "tool"

\* The text blocks of a message, and its list items that are no objects.
TextBlocksOf(m) == SelectSeq(BlocksOf(m), LAMBDA b : IsDict(b) /\ b.type = "text")
TextItemsOf(m) == SelectSeq(BlocksOf(m), LAMBDA b : ~IsDict(b) \/ b.type = "text")
ItemText(b) == IF IsDict(b) THEN b.text ELSE b.str

\* The backend call of a tool_use block: its id (a generated one when the
\* block has none), its name and its input as JSON text.
CallFor(b) ==
    [id |-> IF "id" \in DOMAIN b THEN b.id ELSE "call_uuid",
     type |-> "function",
     function |-> [name |-> b.name,
                   arguments |-> [json |-> "object", value |-> b.input]]]

\* The one assistant message of a message of tool_use blocks whose content
\* is joined from the given items.
AssistantFor(m, items) ==
    [role |-> "assistant",
     content |-> IF items = <<>> THEN NoneValue
                 ELSE Join(Map(items, ItemText), <<"\n">>),
     tool_calls |-> Map(UseBlocks(m), CallFor)]

HoldsOnlyUses(m) == UseBlocks(m) # <<>> /\ ResultBlocks(m) = <<>>

\* C32 (as amended): an inbound message whose content sequence holds
\* tool_use blocks and no tool_result block is translated into exactly one
\* backend message of role assistant whose tool_calls lists one call per
\* tool_use block in block order (the block's id or a generated one, name,
\* JSON-encoded input) and whose content is the newline-joined text of its
\* text blocks and of its list items that are no objects, or null when it
\* has neither; its thinking blocks contribute nothing.
C32_ToolUsesOneAssistantMessage ==
    RequestBuilt
    => \A i \in 1..Len(InboundMessages) :
         HoldsOnlyUses(InboundMessages[i])
         => BackendOf(i)
            = <<AssistantFor(InboundMessages[i], TextItemsOf(InboundMessages[i]))>>

\* C32 (as claimed): the content is the newline-joined text of the text
\* blocks, or null when the message has no text block.
C32_ContentFromTextBlocks ==
    RequestBuilt
    => \A i \in 1..Len(InboundMessages) :
         HoldsOnlyUses(InboundMessages[i])
         => BackendOf(i)
            = <<AssistantFor(InboundMessages[i], TextBlocksOf(InboundMessages[i]))>>

\* C32 witness: a message of a thinking block and two tool_use blocks became
\* an assistant message of two calls with null content, and a message of a
\* text block and a tool_use block one with the text and one call.
C32_Witness ==
    /\ RequestBuilt
    /\ Len(InboundMessages) = 2
    /\ HoldsOnlyUses(InboundMessages[1]) /\ HoldsOnlyUses(InboundMessages[2])
    /\ Len(oai_req.messages) = 2
    /\ oai_req.messages[1].content = NoneValue
    /\ Map(oai_req.messages[1].tool_calls, LAMBDA c : c.id) = <<"toolu_1", "toolu_2">>
    /\ oai_req.messages[2].content = <<"o", "k">>
    /\ Len(oai_req.messages[2].tool_calls) = 1

\* The block type a delta belongs to.
BlockOfDelta(dtype) == IF dtype = "thinking_delta" THEN "thinking" ELSE "text"

\* The content_block_start events written for the index of event k before it.
StartsBefore(k) ==
    {j \in 1..(k - 1) :
        IsStart(events[j]) /\ events[j].index = events[k].index}

\* Every delta written so far stands at an index that was started, and
\* started only as a block of the delta's own kind; no more than one
\* thinking block and one text block were started.
DeltasInOwnBlocks ==
    /\ \A k \in 1..Len(events) :
         IsDelta(events[k])
         => /\ StartsBefore(k) # {}
            /\ \A j \in StartsBefore(k) :
                 events[j].block = BlockOfDelta(events[k].delta)
    /\ \A btype \in {"thinking", "text"} :
         Cardinality({j \in 1..Len(events) :
                        IsStart(events[j]) /\ events[j].block = btype}) <= 1

\* No reasoning delta arrived after a text delta of an earlier line.
ReasoningBeforeText ==
    \A a, b \in 1..Len(resp_lines) :
        (a < b /\ LineContent(resp_lines[a]) # <<>>)
        => LineReasoning(resp_lines[b]) = <<>>

\* C33: in the true-stream translator every delta goes to a block of its
\* own kind, for every order of reasoning and text deltas, reasoning after
\* text included: a thinking_delta stands at an index started as thinking,
\* a text_delta at an index started as text, and the thinking block and the
\* text block are each opened once.
C33_DeltasInOwnBlocks == pc = "stream" => DeltasInOwnBlocks

\* The same for streams in which no reasoning follows text.
C33_OrderedDeltasInOwnBlocks ==
    (pc = "stream" /\ ReasoningBeforeText) => DeltasInOwnBlocks

\* A stream of reasoning, then text, then text again was translated into a
\* thinking block at index 0 and a text block at index 1.
C33_ThinkingThenText ==
    /\ pc = "stream"
    /\ Len(resp_lines) = 3
    /\ LineReasoning(resp_lines[1]) # <<>> /\ LineContent(resp_lines[1]) = <<>>
    /\ LineContent(resp_lines[2]) # <<>> /\ LineContent(resp_lines[3]) # <<>>
    /\ ReasoningBeforeText
    /\ Len(events) = 7
    /\ events[7].index = 1 /\ events[7].delta = "text_delta"

\* The lines read before the terminal marker or the end of the stream.
LinesRead == SubSeq(resp_lines, 1, Len(resp_lines) - 1)

\* Non-empty deltas of the lines read, of either kind.
RECURSIVE DeltaCount(_)
DeltaCount(lines) ==
    IF lines = <<>> THEN 0
    ELSE (IF LineReasoning(Head(lines)) # <<>> THEN 1 ELSE 0)
         + (IF LineContent(Head(lines)) # <<>> THEN 1 ELSE 0)
         + DeltaCount(Tail(lines))

\* The content_block_delta events written, the synthesized fallback delta
\* left out.
WrittenDeltas ==
    SelectSeq(events, LAMBDA e : IsDelta(e) /\ e.payload # ThinkingLimitText)

FinalMessageDelta == events[Len(events) - 1]

\* The stream was read to its terminal marker or its end.
StreamFinished ==
    /\ pc = "done"
    /\ resp_lines # <<>>
    /\ resp_lines[Len(resp_lines)].kind \in {"done", "eof"}

\* C34: in the true-stream translator the output_tokens of the final
\* message_delta is the number of non-empty reasoning deltas plus the
\* number of non-empty text deltas received before the terminal marker (an
\* increment carrying both counts twice), which is the number of
\* content_block_delta events written other than the fallback delta.
C34_OutputTokensCountDeltas ==
    StreamFinished
    => /\ FinalMessageDelta.type = "message_delta"
       /\ FinalMessageDelta.output_tokens = DeltaCount(LinesRead)
       /\ FinalMessageDelta.output_tokens = Len(WrittenDeltas)

\* C34 witness: an increment carrying both deltas and one carrying text
\* were read among lines that carry none, and 3 tokens were reported.
C34_Witness ==
    /\ StreamFinished
    /\ Len(resp_lines) = 4
    /\ LineReasoning(resp_lines[1]) # <<>> /\ LineContent(resp_lines[1]) # <<>>
    /\ resp_lines[2].kind = "badjson"
    /\ LineReasoning(resp_lines[3]) = <<>> /\ LineContent(resp_lines[3]) # <<>>
    /\ FinalMessageDelta.output_tokens = 3

\* A backend line that carries no delta: a line that is no data line, a
\* data line whose payload is no JSON, an increment with neither a
\* reasoning nor a text delta.
SilentLine(line) ==
    \/ line.kind \in {"other", "badjson", "tool_delta"}
    \/ line.kind = "data" /\ line.reasoning = <<>> /\ line.content = <<>>

LastLine(lines) == lines[Len(lines)]
MarkerRead == resp_lines # <<>> /\ LastLine(resp_lines).kind = "done"

\* C35: in the true-stream translator a backend line that is no data line,
\* a data line whose payload is not decodable JSON and an increment with
\* neither a reasoning nor a text delta each write no event and leave the
\* open block, the block index and the token counter unchanged; once the
\* terminal marker is read, no later step writes an event.
C35_SilentLinesChangeNothing ==
    [][/\ (Len(resp_lines') = Len(resp_lines) + 1
           /\ SilentLine(LastLine(resp_lines')))
          => (pc' = pc /\ UNCHANGED <<events, responses, streamLocals>>)
       /\ MarkerRead => UNCHANGED events]_vars

\* C35 witness: after one text delta, a non-data line, an undecodable line
\* and an increment without deltas were read, and the translator stands
\* where the text delta left it.
C35_Witness ==
    /\ pc = "stream"
    /\ Len(resp_lines) = 4
    /\ LineContent(resp_lines[1]) # <<>> /\ LineReasoning(resp_lines[1]) = <<>>
    /\ resp_lines[2].kind = "other"
    /\ resp_lines[3].kind = "badjson"
    /\ resp_lines[4].kind = "tool_delta"
    /\ Len(events) = 3
    /\ total_output_tokens = 1
    /\ content_index = 0 /\ content_started /\ ~in_reasoning

\* C36: for every request at most one HTTP response head is written to the
\* client: once the 200 head of an SSE response has been sent, no later
\* failure of that request (backend read error, undecodable or unexpectedly
\* shaped increment, timeout) writes a second, 500 or 502, response into
\* the same connection.
C36_AtMostOneResponseHead == Len(responses) <= 1

\* Before the first line of the stream is read, one head has been written.
C36_HeadBeforeStream == (pc = "stream" /\ resp_lines = <<>>) => responses = <<SseHead>>

\* A POST /v1/messages whose body is JSON text (or empty).
JsonPost == path = "/v1/messages" /\ body.kind # "not_utf8"

\* The body is an object whose translation raises nothing.
Translatable ==
    body.kind \in {"empty", "malformed"}
    \/ (body.kind = "json" /\ ~MessageGetRaises(body.value))

AnswerStatuses == {200, 400, 500, 502}

\* C37: every POST /v1/messages request whose client stays connected
\* eventually receives exactly one response, with a status among 200, 400,
\* 500 and 502, provided the backend call returns, fails or times out - for
\* every JSON body, also one that parses to a non-object value or whose
\* fields have unexpected types.
C37_EveryPostAnswered ==
    JsonPost
    => <>[](Len(responses) = 1 /\ responses[1].status \in AnswerStatuses)

\* The same for the bodies whose translation raises nothing, counting the
\* first response only.
C37_TranslatablePostAnswered ==
    (JsonPost /\ Translatable)
    => <>[](responses # <<>> /\ responses[1].status \in AnswerStatuses)

\* The backend messages an inbound message is to produce.
ProducedBy(m) ==
    IF ResultBlocks(m) # <<>> THEN Map(ResultBlocks(m), ToolMessageFor)
    ELSE IF UseBlocks(m) # <<>> THEN <<AssistantFor(m, TextItemsOf(m))>>
    ELSE <<[role |-> m.role,
            content |-> IF IsList(m.content)
                        THEN Join(Map(TextItemsOf(m), ItemText), <<"\n">>)
                        ELSE m.content.text]>>

RECURSIVE ProducedInOrder(_)
ProducedInOrder(ms) ==
    IF ms = <<>> THEN <<>>
    ELSE ProducedBy(Head(ms)) \o ProducedInOrder(Tail(ms))

SystemRoleCount(ms) == Len(SelectSeq(ms, LAMBDA m : m.role = "system"))

\* C38: the backend message list keeps the order of the inbound
\* conversation: the system message, when the system prompt is non-empty,
\* is the first backend message and the only one of role system the
\* translator adds; the backend messages of inbound message i all come
\* before those of inbound message j for i < j; and every inbound message
\* without tool_result blocks produces exactly one backend message.
C38_ConversationOrderKept ==
    RequestBuilt
    => LET first == IF SystemGiven THEN 1 ELSE 0
           rest == SubSeq(oai_req.messages, first + 1, Len(oai_req.messages))
       IN  /\ Len(oai_req.messages) >= first
           /\ SystemGiven => oai_req.messages[1].role = "system"
           /\ SystemRoleCount(oai_req.messages)
              = first + SystemRoleCount(InboundMessages)
           /\ rest = ProducedInOrder(InboundMessages)
           /\ \A i \in 1..Len(InboundMessages) :
                ResultBlocks(InboundMessages[i]) = <<>>
                => Len(ProducedBy(InboundMessages[i])) = 1

\* C38 witness: a system prompt, an assistant message of two tool_use
\* blocks and a user message of their two tool_result blocks became a
\* system, an assistant and two tool messages, in this order.
C38_Witness ==
    /\ RequestBuilt
    /\ SystemGiven
    /\ Len(InboundMessages) = 2
    /\ Len(UseBlocks(InboundMessages[1])) = 2
    /\ Len(ResultBlocks(InboundMessages[2])) = 2
    /\ Map(oai_req.messages, LAMBDA m : m.role)
       = <<"system", "assistant", "tool", "tool">>

\* C39: every tool_use block returned to the client on the sync and
\* pseudo-stream paths, whether it comes from the backend's structured
\* tool_calls or from salvage, names a tool of the request's tool list as
\* it stands after the allow-list filter.
C39_ReturnedToolsAreRequested ==
    CompletionAnswered
    => \A i \in 1..Len(AnsweredToolBlocks) :
         \E k \in 1..Len(current_tool_names) :
            AnsweredToolBlocks[i].name = current_tool_names[k]

\* A structured call was answered under the name the backend gave it.
C39_BackendNamesPassedOn ==
    (CompletionAnswered /\ BackendCalls # <<>>)
    => Map(AnsweredToolBlocks, LAMBDA b : b.name)
       = Map(BackendCalls, LAMBDA c : c.function.name)

\* The extractor run again on the cleaned text it returned.
SecondRun == ExtractToolCalls(extracted.cleaned, known_tools)

\* The text holds calls of one grammar only and no tag that the wrapper
\* cleanup removes.
OneGrammarNoWrapper ==
    /\ Cardinality({g \in 1..3 : GrammarCalls(g) # <<>>}) = 1
    /\ WithoutTags(text, WrapperNames \cup OtherNames) = text

\* C40: whenever the extractor returns at least one call, the extractor run
\* again on the returned cleaned text with the same known tool names
\* returns no call.
C40_CleanedTextHoldsNoCall ==
    (pc = "extracted" /\ extracted.tool_calls # <<>>)
    => SecondRun.tool_calls = <<>>


\* The same for the texts that hold calls of one grammar only and no tag
\* that the wrapper cleanup removes.
C40_OneGrammarCleanedHoldsNoCall ==
    (pc = "extracted" /\ extracted.tool_calls # <<>> /\ OneGrammarNoWrapper)
    => SecondRun.tool_calls = <<>>

=============================================================================
